---- MODULE Spec2Model ----
(***************************************************************************)
(* Model of the red-flag-vetting dataset store (CsvDataStore), the name    *)
(* normalizer and the revocation / sanctions matchers.                     *)
(*                                                                         *)
(* Strings the code inspects character by character (EINs, names) are      *)
(* tuples of one-character strings.  An accented letter is the token of    *)
(* its base letter followed by an apostrophe ("e'" is e-acute).            *)
(***************************************************************************)
EXTENDS Integers, Sequences, FiniteSets, TLC

\* ------------------------------------------------------------------------
\* Characters
\* ------------------------------------------------------------------------
UpperChars == <<"A","B","C","D","E","F","G","H","I","J","K","L","M",
                "N","O","P","Q","R","S","T","U","V","W","X","Y","Z">>

LowerChars == <<"a","b","c","d","e","f","g","h","i","j","k","l","m",
                "n","o","p","q","r","s","t","u","v","w","x","y","z">>

DigitChars == {"0","1","2","3","4","5","6","7","8","9"}

WhiteChars == {" ", "\t"}

Range(s) == {s[i] : i \in DOMAIN s}

\* name.normalize("NFD") followed by removal of the combining marks
\* (U+0300..U+036F), on one character
stripDiacritic(ch) ==
  CASE ch = "e'" -> "e"
    [] ch = "E'" -> "E"
    [] ch = "u'" -> "u"
    [] ch = "U'" -> "U"
    [] OTHER -> ch

\* String.prototype.toLowerCase on one character
toLowerCase(ch) ==
  IF \E i \in DOMAIN UpperChars : UpperChars[i] = ch
    THEN LowerChars[CHOOSE i \in DOMAIN UpperChars : UpperChars[i] = ch]
    ELSE ch

MapSeq(s, F(_)) == [i \in DOMAIN s |-> F(s[i])]

IsKeptChar(ch) == ch \in Range(LowerChars) \cup DigitChars \cup WhiteChars

IsWhite(ch) == ch \in WhiteChars

\* ------------------------------------------------------------------------
\* name-normalizer.ts
\* ------------------------------------------------------------------------
\* (variant) the list also holds two of the words that are part of names
ORG_SUFFIXES_WithFund ==
  { <<"i","n","c">>, <<"c","o","r","p">>, <<"c","o">>, <<"l","t","d">>, <<"l","l","c">>, <<"f","u","n","d">>, <<"t","r","u","s","t">> }

ORG_SUFFIXES ==
  { <<"i","n","c","o","r","p","o","r","a","t","e","d">>,
    <<"i","n","c">>,
    <<"c","o","r","p","o","r","a","t","i","o","n">>,
    <<"c","o","r","p">>,
    <<"a","s","s","o","c","i","a","t","i","o","n">>,
    <<"a","s","s","o","c">>,
    <<"a","s","s","n">>,
    <<"o","r","g","a","n","i","z","a","t","i","o","n">>,
    <<"o","r","g">>,
    <<"l","i","m","i","t","e","d">>,
    <<"l","t","d">>,
    <<"l","l","c">>,
    <<"l","l","p">>,
    <<"l","p">>,
    <<"c","o">>,
    <<"c","o","m","p","a","n","y">>,
    <<"n","f","p">>,
    <<"p","b","c">> }

MAX_SUFFIX_ITERATIONS == 10

\* (variant) s.replace(/the\s+/, ""): the pattern is not anchored
stripTheAnywhere(s) ==
  LET hits == {i \in 1..(Len(s) - 3) :
                 s[i] = "t" /\ s[i+1] = "h" /\ s[i+2] = "e" /\ IsWhite(s[i+3])}
  IN IF hits = {} THEN s
     ELSE LET i == CHOOSE x \in hits : \A y \in hits : x <= y
              rest == {j \in (i+3)..Len(s) : ~IsWhite(s[j])}
              first == IF rest = {} THEN Len(s) + 1
                       ELSE CHOOSE j \in rest : \A k \in rest : j <= k
          IN SubSeq(s, 1, i - 1) \o SubSeq(s, first, Len(s))

\* s.replace(/^the\s+/, "")
stripThePrefix(s) ==
  IF Len(s) >= 4 /\ s[1] = "t" /\ s[2] = "h" /\ s[3] = "e" /\ IsWhite(s[4])
    THEN LET rest == {i \in 4..Len(s) : ~IsWhite(s[i])}
             first == IF rest = {} THEN Len(s) + 1
                      ELSE CHOOSE i \in rest : \A j \in rest : i <= j
         IN SubSeq(s, first, Len(s))
    ELSE s

\* Start positions i at which /\s+(suffix)$/ matches: s[i..j-1] is
\* whitespace and s[j..] is one of the suffix tokens.
suffixMatchStarts(s) ==
  {i \in 1..Len(s) :
     \E j \in (i+1)..Len(s) :
        /\ \A k \in i..(j-1) : IsWhite(s[k])
        /\ SubSeq(s, j, Len(s)) \in ORG_SUFFIXES}

\* (variant) the pattern is /(\s+(suffix)){1,2}$/: two stacked tokens go in
\* one replacement
stripTrailingSuffixPair(s) ==
  LET starts == suffixMatchStarts(s)
  IN IF starts = {} THEN s
     ELSE LET i == CHOOSE x \in starts : \A y \in starts : x <= y
              once == SubSeq(s, 1, i - 1)
              again == suffixMatchStarts(once)
          IN IF again = {} THEN once
             ELSE SubSeq(once, 1, (CHOOSE x \in again : \A y \in again : x <= y) - 1)

\* s.replace(TRAILING_SUFFIX_PATTERN, ""): the leftmost match is removed
stripTrailingSuffix(s) ==
  LET starts == suffixMatchStarts(s)
  IN IF starts = {} THEN s
     ELSE LET i == CHOOSE x \in starts : \A y \in starts : x <= y
          IN SubSeq(s, 1, i - 1)

\* do { prev = s; s = strip(s); iterations++ } while (s !== prev && iterations < 10)
RECURSIVE suffixLoop(_, _)
suffixLoop(s, iterations) ==
  LET next == stripTrailingSuffix(s)
      n == iterations + 1
  IN IF next # s /\ n < MAX_SUFFIX_ITERATIONS THEN suffixLoop(next, n) ELSE next

\* The values of `normalized` at the end of each pass of the do-while loop,
\* in order: one entry per increment of `iterations`.
RECURSIVE suffixLoopSteps(_, _)
suffixLoopSteps(s, iterations) ==
  LET next == stripTrailingSuffix(s)
      n == iterations + 1
  IN IF next # s /\ n < MAX_SUFFIX_ITERATIONS
       THEN <<next>> \o suffixLoopSteps(next, n)
       ELSE <<next>>

\* s.replace(/\s+/g, " ").trim()
RECURSIVE collapseFrom(_, _, _)
collapseFrom(s, i, acc) ==
  IF i > Len(s) THEN acc
  ELSE IF IsWhite(s[i])
         THEN IF acc = <<>> \/ acc[Len(acc)] = " "
                THEN collapseFrom(s, i + 1, acc)
                ELSE collapseFrom(s, i + 1, Append(acc, " "))
         ELSE collapseFrom(s, i + 1, Append(acc, s[i]))

collapseAndTrim(s) ==
  LET c == collapseFrom(s, 1, <<>>)
  IN IF c # <<>> /\ c[Len(c)] = " " THEN SubSeq(c, 1, Len(c) - 1) ELSE c

normalizeName(name) ==
  LET folded  == MapSeq(name, stripDiacritic)
      lowered == MapSeq(folded, toLowerCase)
      kept    == SelectSeq(lowered, IsKeptChar)
      noThe   == stripThePrefix(kept)
      noSuf   == suffixLoop(noThe, 0)
  IN collapseAndTrim(noSuf)

\* ------------------------------------------------------------------------
\* Maps (JavaScript Map): functions over a finite key set
\* ------------------------------------------------------------------------
\* a missing string value (no file, no content) and a missing record value
\* (undefined, no manifest entry, no result)
None == "none"

Absent == [absent |-> TRUE]

EmptyFn == [x \in {} |-> None]

MapHas(m, k) == k \in DOMAIN m

MapGet(m, k) == IF k \in DOMAIN m THEN m[k] ELSE Absent

MapSet(m, k, v) == [x \in DOMAIN m \cup {k} |-> IF x = k THEN v ELSE m[x]]

\* ------------------------------------------------------------------------
\* Sample data.  A dataset is represented by the few rows the model looks
\* up plus `pad`, the number of further well-formed rows (each under a key
\* of its own that no lookup of the model uses).
\* ------------------------------------------------------------------------
E1 == <<"1","2","3","4","5","6","7","8","9">>
E1Dashed == <<"1","2","-","3","4","5","6","7","8","9">>
E2 == <<"9","8","7","6","5","4","3","2","1">>
E3 == <<"5","5","5","5","5","5","5","5","5">>
EShort == <<"1","2","3","4">>
ELetters == <<"1","2","-","A","B","C","6","7","8","9">>
ESpaced == <<" ","9","8","7","6","5","4","3","2","1"," ">>

HeaderLine == [nfields |-> 11, ein |-> <<"E","I","N">>, reinstatementDate |-> ""]

IrsLine(e, r) == [nfields |-> 11, ein |-> e, reinstatementDate |-> r]

IrsContentIds == {"O", "A", "S"}

\* the extracted revocation file with content id c
IrsContent(c) ==
  CASE c = "O" -> [lines |-> <<HeaderLine, IrsLine(E1, ""), IrsLine(E2, "2023-01-10")>>,
                   pad |-> 499998]
    [] c = "A" -> [lines |-> <<HeaderLine, IrsLine(E1Dashed, "2024-02-02"), IrsLine(E2, ""),
                               [nfields |-> 5, ein |-> E3, reinstatementDate |-> ""],
                               IrsLine(EShort, "")>>,
                   pad |-> 399998]
    [] c = "S" -> [lines |-> <<HeaderLine, IrsLine(E3, ""), IrsLine(E1, "")>>,
                   pad |-> 399997]

N_BadCo == <<"B","a","d"," ","C","o">>
N_TheAcmeCorp == <<"T","h","e"," ","A","c","m","e"," ","C","o","r","p">>
N_AcmeInc == <<"A","C","M","E"," ","I","n","c",".">>
N_Acme == <<"A","c","m","e">>
N_Bad == <<"b","a","d">>
N_EvilLtd == <<"E","v","i","l"," ","L","t","d">>
N_Ghost == <<"G","h","o","s","t">>
N_Jose == <<"J","o","s","e'">>
N_Punct == <<".",","," ">>

SdnRec(n, nm) == [ncols |-> 12, entNum |-> n, name |-> nm]

AltRec(n, nm) == [ncols |-> 5, entNum |-> n, altName |-> nm]

OfacContentIds == {"O", "A", "S"}

\* the primary-entity file (sdn.csv) of snapshot c, as csv-parse records
SdnContent(c) ==
  CASE c = "O" -> [records |-> <<SdnRec("100", N_BadCo), SdnRec("200", N_TheAcmeCorp)>>,
                   pad |-> 11998]
    [] c = "A" -> [records |-> <<SdnRec("300", N_AcmeInc), SdnRec("100", N_BadCo),
                                 [ncols |-> 3, entNum |-> "500", name |-> N_Ghost],
                                 SdnRec("600", N_Punct)>>,
                   pad |-> 3998]
    [] c = "S" -> [records |-> <<SdnRec("400", N_EvilLtd)>>,
                   pad |-> 3997]

\* the alias file (alt.csv) of snapshot c, as csv-parse records
AltContent(c) ==
  CASE c = "O" -> [records |-> <<AltRec("100", N_Acme), AltRec("200", N_Acme)>>]
    [] c = "A" -> [records |-> <<AltRec("300", N_Bad), AltRec("999", N_Ghost),
                                 AltRec("100", N_Jose)>>]
    [] c = "S" -> [records |-> <<AltRec("400", N_Acme)>>]

\* ------------------------------------------------------------------------
\* csv-loader.ts: constants and parsers
\* ------------------------------------------------------------------------
MAX_ZIP_SIZE_BYTES == 104857600

MIN_IRS_ROWS == 400000

MIN_OFAC_ENTRIES == 4000

REFRESH_COOLDOWN_MS == 60000

\* ein.replace(/[-\s]/g, '')
IsNotDashOrWhite(ch) == ch # "-" /\ ~IsWhite(ch)

stripEin(ein) == SelectSeq(ein, IsNotDashOrWhite)

\* /^\d{9}$/.test(s)
isNineDigits(s) == Len(s) = 9 /\ \A i \in 1..9 : s[i] \in DigitChars

\* (variant) the row is stored under the EIN as written in the file
RECURSIVE parseIrsLinesRawKey(_, _, _, _)
parseIrsLinesRawKey(lines, i, tag, map) ==
  IF i > Len(lines) THEN map
  ELSE LET line == lines[i]
           ein == stripEin(line.ein)
       IN IF line.nfields = 0 \/ line.nfields < 11 \/ ~isNineDigits(ein)
            THEN parseIrsLinesRawKey(lines, i + 1, tag, map)
            ELSE parseIrsLinesRawKey(lines, i + 1, tag,
                   MapSet(map, line.ein, [ein |-> ein,
                                          reinstatementDate |-> line.reinstatementDate,
                                          gen |-> tag]))

\* parseIrsCsv: lines[0] is the header; tag names the parsed file, it
\* stands for the identity of the row objects this pass creates
RECURSIVE parseIrsLines(_, _, _, _)
parseIrsLines(lines, i, tag, map) ==
  IF i > Len(lines) THEN map
  ELSE LET line == lines[i]
           ein == stripEin(line.ein)
       IN IF line.nfields = 0 \/ line.nfields < 11 \/ ~isNineDigits(ein)
            THEN parseIrsLines(lines, i + 1, tag, map)
            ELSE parseIrsLines(lines, i + 1, tag,
                   MapSet(map, ein, [ein |-> ein,
                                     reinstatementDate |-> line.reinstatementDate,
                                     gen |-> tag]))

parseIrsCsv(c) ==
  [rows |-> parseIrsLines(IrsContent(c).lines, 2, c, EmptyFn),
   pad |-> IrsContent(c).pad]

\* Map.size
IrsSize(m) == Cardinality(DOMAIN m.rows) + m.pad

\* parseSdnCsv: records shorter than 6 columns are skipped
RECURSIVE parseSdnRecords(_, _, _, _)
parseSdnRecords(records, i, tag, rows) ==
  IF i > Len(records) THEN rows
  ELSE IF records[i].ncols < 6
         THEN parseSdnRecords(records, i + 1, tag, rows)
         ELSE parseSdnRecords(records, i + 1, tag,
                Append(rows, [entNum |-> records[i].entNum,
                              name |-> records[i].name,
                              gen |-> tag]))

parseSdnCsv(c) ==
  [rows |-> parseSdnRecords(SdnContent(c).records, 1, c, <<>>),
   pad |-> SdnContent(c).pad]

\* parseAltCsv: records shorter than 5 columns are skipped
RECURSIVE parseAltRecords(_, _, _)
parseAltRecords(records, i, rows) ==
  IF i > Len(records) THEN rows
  ELSE IF records[i].ncols < 5
         THEN parseAltRecords(records, i + 1, rows)
         ELSE parseAltRecords(records, i + 1,
                Append(rows, [entNum |-> records[i].entNum,
                              altName |-> records[i].altName]))

parseAltCsv(c) == [rows |-> parseAltRecords(AltContent(c).records, 1, <<>>)]

\* (variant) a primary name is indexed whatever it normalizes to
RECURSIVE indexSdnRowsUnguarded(_, _, _)
indexSdnRowsUnguarded(sdnRows, i, st) ==
  IF i > Len(sdnRows) THEN st
  ELSE LET row == sdnRows[i]
           normalized == normalizeName(row.name)
           existing == IF MapHas(st.map, normalized) THEN st.map[normalized] ELSE <<>>
       IN indexSdnRowsUnguarded(sdnRows, i + 1,
            [byEnt |-> MapSet(st.byEnt, row.entNum, row),
             map |-> MapSet(st.map, normalized, Append(existing, row))])

\* first loop of buildOfacNameMap (primary names); st = [map, byEnt]
RECURSIVE indexSdnRows(_, _, _)
indexSdnRows(sdnRows, i, st) ==
  IF i > Len(sdnRows) THEN st
  ELSE LET row == sdnRows[i]
           normalized == normalizeName(row.name)
           existing == IF MapHas(st.map, normalized) THEN st.map[normalized] ELSE <<>>
       IN indexSdnRows(sdnRows, i + 1,
            [byEnt |-> MapSet(st.byEnt, row.entNum, row),
             map |-> IF normalized # <<>>
                       THEN MapSet(st.map, normalized, Append(existing, row))
                       ELSE st.map])

\* (variant) an alias without a primary entity still creates its key
RECURSIVE indexAltRowsKeepOrphans(_, _, _)
indexAltRowsKeepOrphans(altRows, i, st) ==
  IF i > Len(altRows) THEN st
  ELSE LET alt == altRows[i]
           normalized == normalizeName(alt.altName)
           existing == IF MapHas(st.map, normalized) THEN st.map[normalized] ELSE <<>>
       IN IF ~MapHas(st.byEnt, alt.entNum)
            THEN indexAltRowsKeepOrphans(altRows, i + 1,
                   [byEnt |-> st.byEnt,
                    map |-> IF normalized # <<>>
                              THEN MapSet(st.map, normalized, existing)
                              ELSE st.map])
            ELSE LET sdnRow == st.byEnt[alt.entNum]
                     isThere == \E k \in DOMAIN existing :
                                   existing[k].entNum = sdnRow.entNum
                 IN indexAltRowsKeepOrphans(altRows, i + 1,
                      [byEnt |-> st.byEnt,
                       map |-> IF normalized # <<>>
                                 THEN MapSet(st.map, normalized,
                                        IF isThere THEN existing
                                        ELSE Append(existing, sdnRow))
                                 ELSE st.map])

\* second loop of buildOfacNameMap (aliases)
RECURSIVE indexAltRows(_, _, _)
indexAltRows(altRows, i, st) ==
  IF i > Len(altRows) THEN st
  ELSE LET alt == altRows[i]
       IN IF ~MapHas(st.byEnt, alt.entNum)
            THEN indexAltRows(altRows, i + 1, st)
            ELSE LET sdnRow == st.byEnt[alt.entNum]
                     normalized == normalizeName(alt.altName)
                     existing == IF MapHas(st.map, normalized)
                                   THEN st.map[normalized] ELSE <<>>
                     isThere == \E k \in DOMAIN existing :
                                   existing[k].entNum = sdnRow.entNum
                 IN indexAltRows(altRows, i + 1,
                      [byEnt |-> st.byEnt,
                       map |-> IF normalized # <<>>
                                 THEN MapSet(st.map, normalized,
                                        IF isThere THEN existing
                                        ELSE Append(existing, sdnRow))
                                 ELSE st.map])

\* buildOfacNameMap(sdnRows, altRows): the map it returns
buildOfacNameMapOfRows(sdnRows, altRows) ==
  LET st0 == [map |-> EmptyFn, byEnt |-> EmptyFn]
      st1 == indexSdnRows(sdnRows, 1, st0)
      st2 == indexAltRows(altRows, 1, st1)
  IN st2.map

\* buildOfacNameMap(parseSdnCsv(s), parseAltCsv(a)) for file contents s, a
buildOfacNameMap(s, a) ==
  LET sdn == parseSdnCsv(s)
      alt == parseAltCsv(a)
  IN [idx |-> buildOfacNameMapOfRows(sdn.rows, alt.rows), pad |-> sdn.pad]

\* Map.size
OfacSize(m) == Cardinality(DOMAIN m.idx) + m.pad

\* sdnRows.length and altRows.length
SdnCount(s) == Len(parseSdnCsv(s).rows) + parseSdnCsv(s).pad

AltCount(a) == Len(parseAltCsv(a).rows)

EmptyIrsMap == [rows |-> EmptyFn, pad |-> 0]

EmptyOfacMap == [idx |-> EmptyFn, pad |-> 0]

\* ------------------------------------------------------------------------
\* Remote sources.  A revocation download answers with an archive (or fails);
\* a sanctions download answers with both files of one snapshot (or fails).
\* ------------------------------------------------------------------------
NetErr == "neterr"

ZipIds == {"Z_empty", "Z_bigDeclared", "Z_bomb", "Z_A", "Z_S"}

\* directory of archive z: number of entries, declared and actual size of
\* the first entry, and the content it extracts to
Zip(z) ==
  CASE z = "Z_empty" -> [nfiles |-> 0, uncompressedSize |-> 0, length |-> 0, content |-> None]
    [] z = "Z_bigDeclared" -> [nfiles |-> 1, uncompressedSize |-> MAX_ZIP_SIZE_BYTES + 1,
                               length |-> MAX_ZIP_SIZE_BYTES + 1, content |-> "A"]
    [] z = "Z_bomb" -> [nfiles |-> 1, uncompressedSize |-> 0,
                        length |-> MAX_ZIP_SIZE_BYTES + 1, content |-> "A"]
    [] z = "Z_A" -> [nfiles |-> 1, uncompressedSize |-> MAX_ZIP_SIZE_BYTES,
                     length |-> MAX_ZIP_SIZE_BYTES, content |-> "A"]
    [] z = "Z_S" -> [nfiles |-> 1, uncompressedSize |-> 50000000,
                     length |-> 50000000, content |-> "S"]

IrsResponses == ZipIds \cup {NetErr}

OfacResponses == {"A", "S", NetErr}

\* ------------------------------------------------------------------------
\* Time (milliseconds) and the manifest
\* ------------------------------------------------------------------------
StartTime == 1000000000

TickMs == 30000

MaxTicks == 2

DayMs == 86400000

dataMaxAgeDays == 7

\* the {} that loadManifest returns when the file is missing or unreadable
NoManifest == [irs_revocation |-> Absent, ofac_sdn |-> Absent]

IrsEntry(t, n) == [downloaded_at |-> t, row_count |-> n]

OfacEntry(t, s, a) == [downloaded_at |-> t, sdn_count |-> s, alt_count |-> a]

\* isStale(manifest.x?.downloaded_at) evaluated at time t
isStale(entry, t) ==
  IF entry = Absent THEN TRUE
  ELSE (t - entry.downloaded_at) > dataMaxAgeDays * DayMs

\* ------------------------------------------------------------------------
\* State
\* ------------------------------------------------------------------------
VARIABLES
  irsMap,         \* this.irsMap
  ofacNameMap,    \* this.ofacNameMap
  lastRefreshAt,  \* this.lastRefreshAt
  zipFile,        \* irs-revocation.zip: None or an archive id
  csvFile,        \* irs-revocation.csv: None or a content id
  sdnFile,        \* sdn.csv: None or a snapshot id
  altFile,        \* alt.csv: None or a snapshot id
  manifestFile,   \* data-manifest.json as loadManifest reads it
  now,            \* Date.now()
  pc,             \* position of every call
  loc,            \* local variables of every call
  hist,           \* what every call has done so far
  res,            \* what every call returned
  lastCall,       \* the lookup or matcher call that has just returned
  lastRequestTime, \* RateLimiter.lastRequestTime of the litigation client
  search          \* position of every searchByOrgName call in waitIfNeeded

vars == <<irsMap, ofacNameMap, lastRefreshAt, zipFile, csvFile, sdnFile, altFile,
          manifestFile, now, pc, loc, hist, res, lastCall, lastRequestTime, search>>

store == <<irsMap, ofacNameMap, lastRefreshAt>>

disk == <<zipFile, csvFile, sdnFile, altFile, manifestFile>>

limiter == <<lastRequestTime, search>>

\* the searchByOrgName calls of one litigation client
Searches == {"s1", "s2", "s3"}

NotSearching == [at |-> "idle", wake |-> -1, released |-> -1]

\* new RateLimiter(config.courtlistenerRateLimitMs); no search has been made
InitLimiter ==
  /\ lastRequestTime = 0
  /\ search = [c \in Searches |-> NotSearching]

Refreshes == {"r1", "r2"}

Calls == {"init"} \cup Refreshes

Targets == {"irs", "ofac", "all"}

Terminal == {"done", "failed", "rejected"}

NoLoc == [tgt |-> None, man |-> Absent, own |-> Absent, resp |-> None, dir |-> None,
          content |-> None, irsStale |-> FALSE, ofacStale |-> FALSE]

NoHist == [t0 |-> -1, netIrs |-> 0, netOfac |-> 0, saved |-> {}]

InFlight(p) == pc[p] \notin Terminal \cup {"idle"}

\* the manifest object the running download was handed
Man(l) == IF l.own = Absent THEN l.man ELSE l.own

SetMan(l, m) == IF l.own = Absent THEN [l EXCEPT !.man = m] ELSE [l EXCEPT !.own = m]

refreshIrs(target) == target = "irs" \/ target = "all"

refreshOfac(target) == target = "ofac" \/ target = "all"

ofacCached(sdn, alt) == sdn # None /\ alt # None

\* (variant) parseIrsFromDisk downloads whether or not the file is cached
parseIrsFromDiskAlwaysDownloads(csv) == "irs_lm2"

\* parseIrsFromDisk up to its first await
parseIrsFromDiskPc(csv) == IF csv = None THEN "irs_lm2" ELSE "irs_read"

\* parseOfacFromDisk up to its first await
parseOfacFromDiskPc(sdn, alt) == IF ofacCached(sdn, alt) THEN "ofac_read" ELSE "ofac_lm2"

\* (variant) the catch block rethrows without looking for a cached file
irsCatchPcRethrow(csv) == "failed"

\* (variant) the catch block requests the archive again
irsCatchPcRetry(csv) == "irs_get"

\* catch block of downloadAndParseIrs
irsCatchPc(csv) == IF csv # None THEN parseIrsFromDiskPc(csv) ELSE "failed"

\* catch block of downloadAndParseOfac
ofacCatchPc(sdn, alt) ==
  IF ofacCached(sdn, alt) THEN parseOfacFromDiskPc(sdn, alt) ELSE "failed"

\* what the caller does once its revocation step has returned
afterIrsPc(p, l, sdn, alt) ==
  IF p = "init"
    THEN IF l.ofacStale THEN "ofac_get" ELSE parseOfacFromDiskPc(sdn, alt)
    ELSE IF refreshOfac(l.tgt) THEN "ofac_get" ELSE "done"

ATTRIBUTION == "Data from IRS Auto-Revocation List, US Treasury OFAC SDN List, and CourtListener"

\* (variant) the time the refresh was invoked is recorded
stampRefreshInvoked(last, t) == t - TickMs

\* this.lastRefreshAt = Date.now() at the end of refresh
stampRefresh(last, t) == t

\* the value a call settles with: refreshData wraps refresh, initialize throws
Outcome(p, newpc, l) ==
  CASE newpc = "done" /\ p = "init" -> [threw |-> FALSE]
    [] newpc = "failed" /\ p = "init" -> [threw |-> TRUE]
    [] newpc = "done" /\ p # "init" ->
         [threw |-> FALSE, success |-> TRUE, error |-> None,
          attribution |-> ATTRIBUTION,
          data |-> [irs_refreshed |-> refreshIrs(l.tgt),
                    ofac_refreshed |-> refreshOfac(l.tgt)]]
    [] newpc = "failed" /\ p # "init" ->
         [threw |-> FALSE, success |-> FALSE, error |-> "load",
          attribution |-> ATTRIBUTION, data |-> Absent]
    [] OTHER -> Absent

\* What an earlier run of the server may have left in the data directory:
\* the cache files of snapshot "O" or none, possibly with a file missing,
\* and a manifest whose entries are absent, one day old or eight days old.
InitialFiles ==
  {<<None, None, None>>, <<"O", "O", "O">>, <<"O", "O", None>>, <<None, "O", "O">>}

FreshIrsEntry == IrsEntry(StartTime - DayMs, 500000)

StaleIrsEntry == IrsEntry(StartTime - 8 * DayMs, 500000)

FreshOfacEntry == OfacEntry(StartTime - DayMs, 12000, 2)

StaleOfacEntry == OfacEntry(StartTime - 8 * DayMs, 12000, 2)

InitialManifests ==
  {NoManifest,
   [irs_revocation |-> FreshIrsEntry, ofac_sdn |-> FreshOfacEntry],
   [irs_revocation |-> StaleIrsEntry, ofac_sdn |-> StaleOfacEntry],
   [irs_revocation |-> FreshIrsEntry, ofac_sdn |-> StaleOfacEntry],
   [irs_revocation |-> StaleIrsEntry, ofac_sdn |-> FreshOfacEntry]}

\* (variant) the refresh time is recorded on every exit from refresh
refreshLeaves(p, newpc) == newpc \in {"done", "failed"} /\ p # "init"

\* refresh() has reached the statement before its return
refreshReturns(p, newpc) == newpc = "done" /\ p # "init"

\* no lookup or matcher call has just returned
NoCall == [op |-> None]

\* Move call p to newpc with locals l and history h.  Issuing a download
\* counts its requests; returning from refresh stamps lastRefreshAt.  The
\* result of a lookup is consumed by its caller before the next store event.
Goto(p, newpc, l, h) ==
  /\ pc' = [pc EXCEPT ![p] = newpc]
  /\ loc' = [loc EXCEPT ![p] =
       IF newpc \in Terminal THEN [NoLoc EXCEPT !.tgt = l.tgt]
       ELSE IF newpc \in {"irs_get", "ofac_get", "irs_read", "ofac_read",
                          "irs_lm2", "ofac_lm2"}
              THEN [l EXCEPT !.resp = None, !.dir = None, !.content = None,
                             !.own = IF newpc \in {"irs_lm2", "ofac_lm2"} THEN Absent
                                     ELSE @]
              ELSE l]
  /\ hist' = [hist EXCEPT ![p] =
       [h EXCEPT !.netIrs = IF newpc = "irs_get" THEN @ + 1 ELSE @,
                 !.netOfac = IF newpc = "ofac_get" THEN @ + 2 ELSE @]]
  /\ res' = [res EXCEPT ![p] =
       IF newpc \in {"done", "failed"} THEN Outcome(p, newpc, l) ELSE @]
  /\ lastRefreshAt' =
       IF refreshReturns(p, newpc) THEN stampRefresh(lastRefreshAt, now)
       ELSE lastRefreshAt
  /\ lastCall' = NoCall

Init ==
  /\ irsMap = EmptyIrsMap
  /\ ofacNameMap = EmptyOfacMap
  /\ lastRefreshAt = 0
  /\ zipFile = None
  /\ \E f \in InitialFiles :
        csvFile = f[1] /\ sdnFile = f[2] /\ altFile = f[3]
  /\ manifestFile \in InitialManifests
  /\ now = StartTime
  /\ pc = [p \in Calls |-> "idle"]
  /\ loc = [p \in Calls |-> NoLoc]
  /\ hist = [p \in Calls |-> NoHist]
  /\ res = [p \in Calls |-> Absent]
  /\ lastCall = NoCall
  /\ InitLimiter

\* ------------------------------------------------------------------------
\* initialize() and refresh() up to the first download
\* ------------------------------------------------------------------------

\* initialize(): mkdir, then loadManifest is awaited
InitStart ==
  /\ pc["init"] = "idle"
  /\ Goto("init", "lm", loc["init"], [hist["init"] EXCEPT !.t0 = now])
  /\ UNCHANGED <<limiter, irsMap, ofacNameMap, disk, now>>

\* elapsed < REFRESH_COOLDOWN_MS
cooldownActive(elapsed) == elapsed < REFRESH_COOLDOWN_MS

\* Math.ceil((REFRESH_COOLDOWN_MS - elapsed) / 1000)
waitSec(elapsed) == ((REFRESH_COOLDOWN_MS - elapsed) + 999) \div 1000

\* (variant) the refresh time is stamped before the cooldown is checked
RefreshRejectStamped(r, target) ==
  /\ pc' = [pc EXCEPT ![r] = "rejected"]
  /\ loc' = [loc EXCEPT ![r] = [NoLoc EXCEPT !.tgt = target]]
  /\ hist' = [hist EXCEPT ![r] = [@ EXCEPT !.t0 = now]]
  /\ res' = [res EXCEPT ![r] =
       [threw |-> FALSE, success |-> FALSE, error |-> "cooldown",
        attribution |-> ATTRIBUTION,
        waitSec |-> waitSec(now - lastRefreshAt), data |-> Absent]]
  /\ lastCall' = NoCall
  /\ lastRefreshAt' = now
  /\ UNCHANGED <<limiter, irsMap, ofacNameMap, disk, now>>

\* refresh() inside the cooldown: throws before anything else happens;
\* refreshData turns the throw into a failure result
RefreshReject(r, target) ==
  /\ pc' = [pc EXCEPT ![r] = "rejected"]
  /\ loc' = [loc EXCEPT ![r] = [NoLoc EXCEPT !.tgt = target]]
  /\ hist' = [hist EXCEPT ![r] = [@ EXCEPT !.t0 = now]]
  /\ res' = [res EXCEPT ![r] =
       [threw |-> FALSE, success |-> FALSE, error |-> "cooldown",
        attribution |-> ATTRIBUTION,
        waitSec |-> waitSec(now - lastRefreshAt), data |-> Absent]]
  /\ lastCall' = NoCall
  /\ UNCHANGED <<limiter, store, disk, now>>

\* refreshData(store, {source}) -> store.refresh(source || "all")
RefreshStart(r, source) ==
  /\ pc[r] = "idle"
  /\ LET target == IF source = None THEN "all" ELSE source
     IN IF cooldownActive(now - lastRefreshAt)
          THEN RefreshReject(r, target)
          ELSE /\ Goto(r, "lm", [loc[r] EXCEPT !.tgt = target],
                       [hist[r] EXCEPT !.t0 = now])
               /\ UNCHANGED <<limiter, irsMap, ofacNameMap, disk, now>>

\* loadManifest has returned to initialize() or refresh()
ManifestLoaded(p) ==
  /\ pc[p] = "lm"
  /\ LET m == manifestFile
         l == IF p = "init"
                THEN [loc[p] EXCEPT !.man = m,
                                    !.irsStale = isStale(m.irs_revocation, now),
                                    !.ofacStale = isStale(m.ofac_sdn, now)]
                ELSE [loc[p] EXCEPT !.man = m]
         newpc == IF p = "init"
                    THEN IF l.irsStale THEN "irs_get" ELSE parseIrsFromDiskPc(csvFile)
                    ELSE IF refreshIrs(l.tgt) THEN "irs_get" ELSE "ofac_get"
     IN Goto(p, newpc, l, hist[p])
  /\ UNCHANGED <<limiter, irsMap, ofacNameMap, disk, now>>

\* ------------------------------------------------------------------------
\* Revocation dataset: downloadAndParseIrs / parseIrsFromDisk
\* ------------------------------------------------------------------------

\* loadManifest has returned inside parseIrsFromDisk (no cached file)
IrsManifestReloaded(p) ==
  /\ pc[p] = "irs_lm2"
  /\ Goto(p, "irs_get", [loc[p] EXCEPT !.own = manifestFile], hist[p])
  /\ UNCHANGED <<limiter, irsMap, ofacNameMap, disk, now>>

\* axios.get has settled
IrsGot(p, z) ==
  /\ pc[p] = "irs_get"
  /\ IF z = NetErr
       THEN Goto(p, irsCatchPc(csvFile), loc[p], hist[p])
       ELSE Goto(p, "irs_wzip", [loc[p] EXCEPT !.resp = z], hist[p])
  /\ UNCHANGED <<limiter, irsMap, ofacNameMap, disk, now>>

\* writeFile(zipPath) is done; unzipper.Open.file is awaited
IrsWroteZip(p) ==
  /\ pc[p] = "irs_wzip"
  /\ zipFile' = loc[p].resp
  /\ Goto(p, "irs_open", loc[p], hist[p])
  /\ UNCHANGED <<limiter, irsMap, ofacNameMap, csvFile, sdnFile, altFile, manifestFile,
                 now>>

\* file.uncompressedSize && file.uncompressedSize > MAX_ZIP_SIZE_BYTES
declaredTooLarge(size) == size # 0 /\ size > MAX_ZIP_SIZE_BYTES

\* (variant) only the size the archive declares is tested
extractedSizeIgnored(length) == FALSE

\* content.length > MAX_ZIP_SIZE_BYTES
extractedTooLarge(length) == length > MAX_ZIP_SIZE_BYTES

\* the archive on disk has been opened; file.buffer() is awaited
IrsOpened(p) ==
  /\ pc[p] = "irs_open"
  /\ LET d == Zip(zipFile)
     IN IF d.nfiles = 0 \/ declaredTooLarge(d.uncompressedSize)
          THEN Goto(p, irsCatchPc(csvFile), loc[p], hist[p])
          ELSE Goto(p, "irs_buf", [loc[p] EXCEPT !.dir = zipFile], hist[p])
  /\ UNCHANGED <<limiter, irsMap, ofacNameMap, disk, now>>

\* file.buffer() has settled.  It reads the archive file again: when another
\* call has replaced the file since it was opened, the bytes may be those of
\* either archive.
IrsBuffered(p, z) ==
  /\ pc[p] = "irs_buf"
  /\ z \in {loc[p].dir, zipFile}
  /\ LET d == Zip(z)
     IN IF d.nfiles = 0 \/ extractedTooLarge(d.length)
          THEN Goto(p, irsCatchPc(csvFile), loc[p], hist[p])
          ELSE Goto(p, "irs_wcsv", [loc[p] EXCEPT !.content = d.content], hist[p])
  /\ UNCHANGED <<limiter, irsMap, ofacNameMap, disk, now>>

\* newMap.size < MIN_IRS_ROWS
irsTooSmall(size) == size < MIN_IRS_ROWS

\* this.irsMap = newMap
swapIrs(live, newMap) == newMap

\* writeFile(csvPath) is done: parse, validate, publish, update the manifest
\* object; saveManifest is awaited
IrsWroteCsv(p) ==
  /\ pc[p] = "irs_wcsv"
  /\ csvFile' = loc[p].content
  /\ LET newMap == parseIrsCsv(loc[p].content)
     IN IF irsTooSmall(IrsSize(newMap))
          THEN /\ Goto(p, irsCatchPc(csvFile'), loc[p],
                       hist[p])
               /\ irsMap' = irsMap
          ELSE /\ irsMap' = swapIrs(irsMap, newMap)
               /\ Goto(p, "irs_save",
                       SetMan(loc[p], [Man(loc[p]) EXCEPT !.irs_revocation =
                                         IrsEntry(now, IrsSize(irsMap'))]),
                       hist[p])
  /\ UNCHANGED <<limiter, ofacNameMap, zipFile, sdnFile, altFile, manifestFile,
                 now>>

\* saveManifest is done; downloadAndParseIrs returns to its caller
IrsSaved(p) ==
  /\ pc[p] = "irs_save"
  /\ manifestFile' = Man(loc[p])
  /\ Goto(p, afterIrsPc(p, loc[p], sdnFile, altFile),
          [loc[p] EXCEPT !.own = Absent],
          [hist[p] EXCEPT !.saved = @ \cup {"irs"}])
  /\ UNCHANGED <<limiter, irsMap, ofacNameMap, zipFile, csvFile, sdnFile, altFile,
                 now>>

\* readFile(csvPath) is done inside parseIrsFromDisk: parse and publish
IrsReadDisk(p) ==
  /\ pc[p] = "irs_read"
  /\ irsMap' = swapIrs(irsMap, parseIrsCsv(csvFile))
  /\ Goto(p, afterIrsPc(p, loc[p], sdnFile, altFile),
          [loc[p] EXCEPT !.own = Absent],
          hist[p])
  /\ UNCHANGED <<limiter, ofacNameMap, disk, now>>

\* ------------------------------------------------------------------------
\* Sanctions dataset: downloadAndParseOfac / parseOfacFromDisk
\* ------------------------------------------------------------------------

\* loadManifest has returned inside parseOfacFromDisk (a file is missing)
OfacManifestReloaded(p) ==
  /\ pc[p] = "ofac_lm2"
  /\ Goto(p, "ofac_get", [loc[p] EXCEPT !.own = manifestFile], hist[p])
  /\ UNCHANGED <<limiter, irsMap, ofacNameMap, disk, now>>

\* Promise.all of the two axios.get calls has settled
OfacGot(p, o) ==
  /\ pc[p] = "ofac_get"
  /\ IF o = NetErr
       THEN Goto(p, ofacCatchPc(sdnFile, altFile), loc[p], hist[p])
       ELSE Goto(p, "ofac_w", [loc[p] EXCEPT !.resp = o], hist[p])
  /\ UNCHANGED <<limiter, irsMap, ofacNameMap, disk, now>>

\* newMap.size < MIN_OFAC_ENTRIES
ofacTooSmall(size) == size < MIN_OFAC_ENTRIES

\* (variant) the new entries are inserted into the live map, key by key
swapOfacInPlace(live, newMap) ==
  [idx |-> [k \in DOMAIN live.idx \cup DOMAIN newMap.idx |->
              (IF k \in DOMAIN live.idx THEN live.idx[k] ELSE <<>>) \o
              (IF k \in DOMAIN newMap.idx THEN newMap.idx[k] ELSE <<>>)],
   pad |-> newMap.pad]

\* this.ofacNameMap = newMap
swapOfac(live, newMap) == newMap

\* Promise.all of the two writeFile calls is done: parse, build, validate,
\* publish, update the manifest object; saveManifest is awaited
OfacWrote(p) ==
  /\ pc[p] = "ofac_w"
  /\ sdnFile' = loc[p].resp
  /\ altFile' = loc[p].resp
  /\ LET newMap == buildOfacNameMap(loc[p].resp, loc[p].resp)
     IN IF ofacTooSmall(OfacSize(newMap))
          THEN /\ Goto(p, ofacCatchPc(sdnFile', altFile'), loc[p],
                       hist[p])
               /\ ofacNameMap' = ofacNameMap
          ELSE /\ ofacNameMap' = swapOfac(ofacNameMap, newMap)
               /\ Goto(p, "ofac_save",
                       SetMan(loc[p], [Man(loc[p]) EXCEPT !.ofac_sdn =
                                         OfacEntry(now, SdnCount(loc[p].resp),
                                                   AltCount(loc[p].resp))]),
                       hist[p])
  /\ UNCHANGED <<limiter, irsMap, zipFile, csvFile, manifestFile, now>>

\* saveManifest is done; downloadAndParseOfac returns to its caller
OfacSaved(p) ==
  /\ pc[p] = "ofac_save"
  /\ manifestFile' = Man(loc[p])
  /\ Goto(p, "done", loc[p], [hist[p] EXCEPT !.saved = @ \cup {"ofac"}])
  /\ UNCHANGED <<limiter, irsMap, ofacNameMap, zipFile, csvFile, sdnFile, altFile,
                 now>>

\* both readFile calls are done inside parseOfacFromDisk: build and publish
OfacReadDisk(p) ==
  /\ pc[p] = "ofac_read"
  /\ ofacNameMap' = swapOfac(ofacNameMap, buildOfacNameMap(sdnFile, altFile))
  /\ Goto(p, "done", loc[p], hist[p])
  /\ UNCHANGED <<limiter, irsMap, disk, now>>

\* ------------------------------------------------------------------------
\* Time, lookups and matchers
\* ------------------------------------------------------------------------
Tick ==
  /\ now < StartTime + MaxTicks * TickMs
  /\ now' = now + TickMs
  /\ lastCall' = NoCall
  /\ UNCHANGED <<limiter, store, disk, pc, loc, hist, res>>

EinInputs == {E1, E1Dashed, E3, ESpaced, EShort, ELetters}

NameInputs == {N_Acme, N_BadCo, N_EvilLtd, N_Punct, <<>>, <<" ", " ">>}

\* the inputs looked up while initialize() and refresh() run
StoreEinInputs == {E1Dashed, E3}

StoreNameInputs == {N_Acme}

\* CsvDataStore.lookupEin
lookupEin(map, ein) == MapGet(map.rows, stripEin(ein))

\* CsvDataStore.lookupName
lookupName(map, name) ==
  IF MapHas(map.idx, normalizeName(name)) THEN map.idx[normalizeName(name)] ELSE <<>>

\* (variant) the store is queried before the format is validated
irsCheckLookupFirst(map, ein) ==
  LET normalized == stripEin(ein)
      row == lookupEin(map, normalized)
  IN IF ~isNineDigits(normalized)
       THEN [found |-> FALSE, revoked |-> FALSE, detail |-> "invalid",
             queried |-> <<normalized>>]
     ELSE IF row = Absent
       THEN [found |-> FALSE, revoked |-> FALSE, detail |-> "not found",
             queried |-> <<normalized>>]
     ELSE IF row.reinstatementDate # ""
       THEN [found |-> TRUE, revoked |-> FALSE, detail |-> "reinstated",
             queried |-> <<normalized>>]
     ELSE [found |-> TRUE, revoked |-> TRUE, detail |-> "revoked",
           queried |-> <<normalized>>]

\* (variant) the test for a missing row is left out, so reading the
\* reinstatement date of a missing row throws
irsCheckNoRowGuard(map, ein) ==
  LET normalized == stripEin(ein)
      row == lookupEin(map, normalized)
  IN IF ~isNineDigits(normalized)
       THEN [found |-> FALSE, revoked |-> FALSE, detail |-> "invalid", queried |-> <<>>]
     ELSE IF row = Absent
       THEN [found |-> FALSE, revoked |-> FALSE, detail |-> "threw",
             queried |-> <<normalized>>]
     ELSE IF row.reinstatementDate # ""
       THEN [found |-> TRUE, revoked |-> FALSE, detail |-> "reinstated",
             queried |-> <<normalized>>]
     ELSE [found |-> TRUE, revoked |-> TRUE, detail |-> "revoked",
           queried |-> <<normalized>>]

\* (variant) the reinstatement test is inverted
irsCheckInverted(map, ein) ==
  LET normalized == stripEin(ein)
      row == lookupEin(map, normalized)
  IN IF ~isNineDigits(normalized)
       THEN [found |-> FALSE, revoked |-> FALSE, detail |-> "invalid", queried |-> <<>>]
     ELSE IF row = Absent
       THEN [found |-> FALSE, revoked |-> FALSE, detail |-> "not found",
             queried |-> <<normalized>>]
     ELSE IF row.reinstatementDate = ""
       THEN [found |-> TRUE, revoked |-> FALSE, detail |-> "reinstated",
             queried |-> <<normalized>>]
     ELSE [found |-> TRUE, revoked |-> TRUE, detail |-> "revoked",
           queried |-> <<normalized>>]

\* IrsRevocationClient.check; `queried` is the key handed to lookupEin
irsCheck(map, ein) ==
  LET normalized == stripEin(ein)
      row == lookupEin(map, normalized)
  IN IF ~isNineDigits(normalized)
       THEN [found |-> FALSE, revoked |-> FALSE, detail |-> "invalid", queried |-> <<>>]
     ELSE IF row = Absent
       THEN [found |-> FALSE, revoked |-> FALSE, detail |-> "not found",
             queried |-> <<normalized>>]
     ELSE IF row.reinstatementDate # ""
       THEN [found |-> TRUE, revoked |-> FALSE, detail |-> "reinstated",
             queried |-> <<normalized>>]
     ELSE [found |-> TRUE, revoked |-> TRUE, detail |-> "revoked",
           queried |-> <<normalized>>]

Running == {p \in Calls : InFlight(p)}

LookupEin(ein) ==
  /\ lastCall' = [op |-> "lookupEin", arg |-> ein, during |-> Running # {},
                  rows |-> IF lookupEin(irsMap, ein) = Absent THEN <<>>
                           ELSE <<lookupEin(irsMap, ein)>>]
  /\ UNCHANGED <<limiter, store, disk, now, pc, loc, hist, res>>

LookupName(name) ==
  /\ lastCall' = [op |-> "lookupName", arg |-> name, during |-> Running # {},
                  rows |-> lookupName(ofacNameMap, name)]
  /\ UNCHANGED <<limiter, store, disk, now, pc, loc, hist, res>>

IrsCheck(ein) ==
  /\ lastCall' = [op |-> "irsCheck", arg |-> ein, during |-> Running # {},
                  result |-> irsCheck(irsMap, ein)]
  /\ UNCHANGED <<limiter, store, disk, now, pc, loc, hist, res>>

\* One call of initialize() and one refresh, one after the other in either
\* order, with lookups at any moment.  The seconds such a call takes do not
\* change what isStale answers, so the clock stands still here; it runs in
\* SpecRefresh, where the cooldown depends on it.
Next ==
  \/ pc["r1"] = "idle" /\ InitStart
  \/ \E source \in Targets \cup {None} : Running = {} /\ RefreshStart("r1", source)
  \/ \E p \in Calls : ManifestLoaded(p)
  \/ \E p \in Calls : IrsManifestReloaded(p)
  \/ \E p \in Calls, z \in IrsResponses : IrsGot(p, z)
  \/ \E p \in Calls : IrsWroteZip(p)
  \/ \E p \in Calls : IrsOpened(p)
  \/ \E p \in Calls, z \in ZipIds : IrsBuffered(p, z)
  \/ \E p \in Calls : IrsWroteCsv(p)
  \/ \E p \in Calls : IrsSaved(p)
  \/ \E p \in Calls : IrsReadDisk(p)
  \/ \E p \in Calls : OfacManifestReloaded(p)
  \/ \E p \in Calls, o \in OfacResponses : OfacGot(p, o)
  \/ \E p \in Calls : OfacWrote(p)
  \/ \E p \in Calls : OfacSaved(p)
  \/ \E p \in Calls : OfacReadDisk(p)
  \/ \E ein \in StoreEinInputs : LookupEin(ein)
  \/ \E name \in StoreNameInputs : LookupName(name)

Spec == Init /\ [][Next]_vars

\* ------------------------------------------------------------------------
\* Refreshes on a store that was not initialized: two refreshData calls that
\* may overlap.  The second slot is used after the first.
\* ------------------------------------------------------------------------
InitRefresh ==
  /\ Init
  /\ manifestFile \in {NoManifest,
                       [irs_revocation |-> FreshIrsEntry, ofac_sdn |-> FreshOfacEntry]}

NextRefresh ==
  \/ \E r \in Refreshes, source \in Targets \cup {None} :
        /\ r = "r2" => pc["r1"] # "idle"
        /\ RefreshStart(r, source)
  \/ \E r \in Refreshes : ManifestLoaded(r)
  \/ \E r \in Refreshes, z \in {"Z_A", "Z_S", NetErr} : IrsGot(r, z)
  \/ \E r \in Refreshes : IrsWroteZip(r)
  \/ \E r \in Refreshes : IrsOpened(r)
  \/ \E r \in Refreshes, z \in {"Z_A", "Z_S"} : IrsBuffered(r, z)
  \/ \E r \in Refreshes : IrsWroteCsv(r)
  \/ \E r \in Refreshes : IrsSaved(r)
  \/ \E r \in Refreshes : IrsReadDisk(r)
  \/ \E r \in Refreshes, o \in OfacResponses : OfacGot(r, o)
  \/ \E r \in Refreshes : OfacWrote(r)
  \/ \E r \in Refreshes : OfacSaved(r)
  \/ \E r \in Refreshes : OfacReadDisk(r)
  \/ Tick

SpecRefresh == InitRefresh /\ [][NextRefresh]_vars

\* ------------------------------------------------------------------------
\* Start-up alone: initialize() on a data directory that may also hold a
\* cache below the floors (parseIrsFromDisk and parseOfacFromDisk expect
\* one: they warn about it).
\* ------------------------------------------------------------------------
StartupFiles == InitialFiles \cup {<<"S", "S", "S">>, <<"S", "O", "O">>}

InitStartup ==
  /\ irsMap = EmptyIrsMap
  /\ ofacNameMap = EmptyOfacMap
  /\ lastRefreshAt = 0
  /\ zipFile = None
  /\ \E f \in StartupFiles :
        csvFile = f[1] /\ sdnFile = f[2] /\ altFile = f[3]
  /\ manifestFile \in InitialManifests
  /\ now = StartTime
  /\ pc = [p \in Calls |-> "idle"]
  /\ loc = [p \in Calls |-> NoLoc]
  /\ hist = [p \in Calls |-> NoHist]
  /\ res = [p \in Calls |-> Absent]
  /\ lastCall = NoCall
  /\ InitLimiter

NextStartup ==
  \/ InitStart
  \/ ManifestLoaded("init")
  \/ IrsManifestReloaded("init")
  \/ \E z \in IrsResponses : IrsGot("init", z)
  \/ IrsWroteZip("init")
  \/ IrsOpened("init")
  \/ \E z \in ZipIds : IrsBuffered("init", z)
  \/ IrsWroteCsv("init")
  \/ IrsSaved("init")
  \/ IrsReadDisk("init")
  \/ OfacManifestReloaded("init")
  \/ \E o \in OfacResponses : OfacGot("init", o)
  \/ OfacWrote("init")
  \/ OfacSaved("init")
  \/ OfacReadDisk("init")

SpecStartup == InitStartup /\ [][NextStartup]_vars

\* ------------------------------------------------------------------------
\* The life of a store: initialize(), then refreshes that may overlap, with
\* lookups at any moment and the clock running.  Downloads answer with a
\* valid archive or snapshot, or fail.
\* ------------------------------------------------------------------------
NextLife ==
  \/ InitStart
  \/ \E r \in Refreshes, source \in {"irs", "ofac"} :
        /\ pc["init"] \in Terminal
        /\ r = "r2" => pc["r1"] # "idle"
        /\ RefreshStart(r, source)
  \/ \E p \in Calls : ManifestLoaded(p)
  \/ \E p \in Calls : IrsManifestReloaded(p)
  \/ \E p \in Calls, z \in {"Z_A", NetErr} : IrsGot(p, z)
  \/ \E p \in Calls : IrsWroteZip(p)
  \/ \E p \in Calls : IrsOpened(p)
  \/ \E p \in Calls : IrsBuffered(p, "Z_A")
  \/ \E p \in Calls : IrsWroteCsv(p)
  \/ \E p \in Calls : IrsSaved(p)
  \/ \E p \in Calls : IrsReadDisk(p)
  \/ \E p \in Calls : OfacManifestReloaded(p)
  \/ \E p \in Calls, o \in {"A", NetErr} : OfacGot(p, o)
  \/ \E p \in Calls : OfacWrote(p)
  \/ \E p \in Calls : OfacSaved(p)
  \/ \E p \in Calls : OfacReadDisk(p)
  \/ LookupEin(E1Dashed)
  \/ LookupName(N_Acme)
  \/ Tick

InitLife ==
  /\ Init
  /\ manifestFile \in {NoManifest,
                       [irs_revocation |-> FreshIrsEntry, ofac_sdn |-> FreshOfacEntry]}
  /\ csvFile = sdnFile

SpecLife == InitLife /\ [][NextLife]_vars

\* ------------------------------------------------------------------------
\* Sanctions matcher, scoring, and the tool functions
\* ------------------------------------------------------------------------
\* (variant) the query is compared with the primary name as written
ofacMatchRaw(name, row) ==
  [entNum |-> row.entNum, name |-> row.name,
   matchedOn |-> IF name = row.name THEN "primary" ELSE "alias"]

\* the callback of rows.map in OfacSdnClient.check
ofacMatch(name, row) ==
  [entNum |-> row.entNum, name |-> row.name,
   matchedOn |-> IF normalizeName(name) = normalizeName(row.name)
                   THEN "primary" ELSE "alias"]

\* OfacSdnClient.check
ofacCheck(map, name) ==
  LET rows == lookupName(map, name)
  IN IF Len(rows) = 0
       THEN [found |-> FALSE, detail |-> "no match", matches |-> <<>>]
       ELSE [found |-> TRUE, detail |-> "match",
             matches |-> [i \in DOMAIN rows |-> ofacMatch(name, rows[i])]]

\* court.caseCount >= 3 ? 'HIGH' : 'MEDIUM'
courtSeverity(caseCount) == IF caseCount >= 3 THEN "HIGH" ELSE "MEDIUM"

Flag(severity, source) == [severity |-> severity, source |-> source]

\* (variant) the revocation flag is raised for every row found
aggregateFlagsOnFound(irs, ofac, court) ==
  (IF irs.found THEN <<Flag("CRITICAL", "irs_revocation")>> ELSE <<>>) \o
  (IF ofac.found THEN <<Flag("CRITICAL", "ofac_sanctions")>> ELSE <<>>) \o
  (IF court.found THEN <<Flag(courtSeverity(court.caseCount), "court_records")>>
   ELSE <<>>)

\* aggregateFlags
aggregateFlags(irs, ofac, court) ==
  (IF irs.revoked THEN <<Flag("CRITICAL", "irs_revocation")>> ELSE <<>>) \o
  (IF ofac.found THEN <<Flag("CRITICAL", "ofac_sanctions")>> ELSE <<>>) \o
  (IF court.found THEN <<Flag(courtSeverity(court.caseCount), "court_records")>>
   ELSE <<>>)

\* (variant) only the first flag is inspected
getRecommendationFirst(flags) ==
  IF Len(flags) > 0 /\ flags[1].severity = "CRITICAL" THEN "BLOCK"
  ELSE IF Len(flags) > 0 THEN "FLAG"
  ELSE "CLEAN"

\* getRecommendation
getRecommendation(flags) ==
  IF \E i \in DOMAIN flags : flags[i].severity = "CRITICAL" THEN "BLOCK"
  ELSE IF Len(flags) > 0 THEN "FLAG"
  ELSE "CLEAN"

\* HEADLINES[recommendation] (the long dash of the source is written -)
HEADLINES(recommendation) ==
  CASE recommendation = "CLEAN" -> "No Red Flags Detected"
    [] recommendation = "FLAG" -> "Red Flags Found - Manual Review Required"
    [] recommendation = "BLOCK" -> "CRITICAL Red Flags - Do Not Proceed"

\* (variant) the two counts are exchanged
generateSummaryCountsSwapped(flags, recommendation, sourcesChecked) ==
  [headline |-> HEADLINES(recommendation),
   sources_checked |-> Len(flags),
   flags_found |-> sourcesChecked,
   recommendation |-> recommendation]

\* generateSummary
generateSummary(flags, recommendation, sourcesChecked) ==
  [headline |-> HEADLINES(recommendation),
   sources_checked |-> sourcesChecked,
   flags_found |-> Len(flags),
   recommendation |-> recommendation]

\* a thrown Error with its message
Thrown(message) == [throws |-> TRUE, message |-> message]

IsThrow(x) == "throws" \in DOMAIN x

\* getErrorMessage(error): the message of the Error
getErrorMessage(error) == error.message

\* what searchByOrgName returns for a response with nResults results and
\* the total `count`
searchByOrgName(nResults, count) ==
  IF nResults = 0 THEN [found |-> FALSE, detail |-> "no cases", caseCount |-> 0]
  ELSE [found |-> TRUE, detail |-> "cases found", caseCount |-> count]

\* the catch block of searchByOrgName for a request that failed with an
\* HTTP status (0: no response)
searchByOrgNameFailed(status) ==
  IF status = 401 THEN Thrown("token invalid")
  ELSE IF status = 429
    THEN [found |-> FALSE, detail |-> "rate limit", caseCount |-> 0]
  ELSE Thrown("request failed")

\* (variant) the literal reports a finding
CourtNotConfiguredAsFound ==
  [found |-> TRUE, detail |-> "not configured", caseCount |-> 0]

\* the literal checkRedFlags uses when no litigation client is configured
CourtNotConfigured == [found |-> FALSE, detail |-> "not configured", caseCount |-> 0]

MAX_NAME_LENGTH == 500

MAX_EIN_LENGTH == 20

\* a tool argument: given is false when the property is missing
Given(text) == [given |-> TRUE, text |-> text]

Missing == [given |-> FALSE, text |-> <<>>]

\* String.prototype.trim
trim(s) ==
  IF \A i \in DOMAIN s : IsWhite(s[i]) THEN <<>>
  ELSE SubSeq(s,
         CHOOSE i \in DOMAIN s : ~IsWhite(s[i]) /\ \A j \in 1..(i-1) : IsWhite(s[j]),
         CHOOSE i \in DOMAIN s : ~IsWhite(s[i]) /\ \A j \in (i+1)..Len(s) : IsWhite(s[j]))

\* input.x?.trim(): undefined for a missing property
trimmed(arg) == IF arg.given THEN trim(arg.text) ELSE <<>>

\* The client object a tool is handed: the matcher over a map of the store,
\* or (fault is a message) an object whose check throws, as the tools' tests
\* hand in.
Client(map, fault) == [map |-> map, fault |-> fault]

\* irsClient.check(ein)
irsClientCheck(client, ein) ==
  IF client.fault # None THEN Thrown(client.fault) ELSE irsCheck(client.map, ein)

\* ofacClient.check(name)
ofacClientCheck(client, name) ==
  IF client.fault # None THEN Thrown(client.fault) ELSE ofacCheck(client.map, name)

\* validationError(message); a message is the sequence of its parts, and
\* `invoked` lists the clients that were called
validationError(message) ==
  [success |-> FALSE, error |-> message, attribution |-> ATTRIBUTION,
   invoked |-> {}, data |-> Absent]

\* { success: true, data, attribution }
toolSuccess(data, invoked) ==
  [success |-> TRUE, error |-> <<>>, attribution |-> ATTRIBUTION,
   invoked |-> invoked, data |-> data]

\* (variant) the catch block reports the failure without the message
toolCaughtNoMessage(prefix, error, invoked) ==
  [validationError(<<prefix>>) EXCEPT !.invoked = invoked]

\* the catch block of a tool: validationError(`<prefix>: ${message}`)
toolCaught(prefix, error, invoked) ==
  [validationError(<<prefix, getErrorMessage(error)>>) EXCEPT !.invoked = invoked]

\* (variant) the EIN is validated as given, without trimming
checkIrsRevocationUntrimmed(irsClient, ein) ==
  IF ~ein.given \/ ein.text = <<>> THEN validationError(<<"required">>)
  ELSE IF Len(ein.text) > MAX_EIN_LENGTH THEN validationError(<<"too long">>)
  ELSE LET result == irsClientCheck(irsClient, ein.text)
       IN IF IsThrow(result)
            THEN toolCaught("IRS revocation check failed", result, {"irs"})
            ELSE toolSuccess(result, {"irs"})

\* checkIrsRevocation
checkIrsRevocation(irsClient, ein) ==
  LET e == trimmed(ein)
  IN IF e = <<>> THEN validationError(<<"required">>)
     ELSE IF Len(e) > MAX_EIN_LENGTH THEN validationError(<<"too long">>)
     ELSE LET result == irsClientCheck(irsClient, e)
          IN IF IsThrow(result)
               THEN toolCaught("IRS revocation check failed", result, {"irs"})
               ELSE toolSuccess(result, {"irs"})

\* checkOfacSanctions
checkOfacSanctions(ofacClient, name) ==
  LET n == trimmed(name)
  IN IF n = <<>> THEN validationError(<<"required">>)
     ELSE IF Len(n) > MAX_NAME_LENGTH THEN validationError(<<"too long">>)
     ELSE LET result == ofacClientCheck(ofacClient, n)
          IN IF IsThrow(result)
               THEN toolCaught("OFAC sanctions check failed", result, {"ofac"})
               ELSE toolSuccess(result, {"ofac"})

\* checkRedFlags; court is Absent when no litigation client is configured
\* (null) and otherwise what its search answers or throws.  The store is
\* read before the search is awaited and not afterwards.
checkRedFlags(irsClient, ofacClient, court, ein, name) ==
  LET e == trimmed(ein)
      n == trimmed(name)
      prefix == "Red flag check failed"
  IN IF e = <<>> \/ n = <<>> THEN validationError(<<"required">>)
     ELSE IF Len(e) > MAX_EIN_LENGTH THEN validationError(<<"too long">>)
     ELSE IF Len(n) > MAX_NAME_LENGTH THEN validationError(<<"too long">>)
     ELSE LET irsResult == irsClientCheck(irsClient, e)
              ofacResult == ofacClientCheck(ofacClient, n)
              courtResult == IF court = Absent THEN CourtNotConfigured ELSE court
              called == {"irs", "ofac"} \cup (IF court = Absent THEN {} ELSE {"court"})
          IN IF IsThrow(irsResult) THEN toolCaught(prefix, irsResult, {"irs"})
             ELSE IF IsThrow(ofacResult)
               THEN toolCaught(prefix, ofacResult, {"irs", "ofac"})
             ELSE IF IsThrow(courtResult) THEN toolCaught(prefix, courtResult, called)
             ELSE LET flags == aggregateFlags(irsResult, ofacResult, courtResult)
                      recommendation == getRecommendation(flags)
                      summary == generateSummary(flags, recommendation, 3)
                  IN toolSuccess(
                       [ein |-> e, name |-> n,
                        checks |-> [irs_revocation |-> irsResult,
                                    ofac_sanctions |-> ofacResult,
                                    court_records |-> courtResult],
                        flags |-> flags,
                        clean |-> Len(flags) = 0,
                        summary |-> summary],
                       called)

\* input.lookback_years: a number in tenths of a year, or omitted
Years(tenths) == [given |-> TRUE, tenths |-> tenths]

YearsOmitted == [given |-> FALSE, tenths |-> 0]

\* Math.floor(input.lookback_years ?? 1)
floorYears(lookback) == IF lookback.given THEN lookback.tenths \div 10 ELSE 1

\* (variant) the upper end of the range is not tested
lookbackOnlyLowerBound(years) == years < 1

\* lookbackYears < 1 || lookbackYears > 10
lookbackOutOfRange(years) == years < 1 \/ years > 10

\* a response together with the arguments of the searches it made
WithCalls(response, calls) ==
  [k \in DOMAIN response \cup {"calls"} |->
     IF k = "calls" THEN calls ELSE response[k]]

\* checkCourtRecords; court as for checkRedFlags
checkCourtRecords(court, name, lookback) ==
  LET n == trimmed(name)
      lookbackYears == floorYears(lookback)
  IN IF court = Absent
       THEN WithCalls(validationError(<<"not configured">>), <<>>)
     ELSE IF n = <<>> THEN WithCalls(validationError(<<"required">>), <<>>)
     ELSE IF Len(n) > MAX_NAME_LENGTH
       THEN WithCalls(validationError(<<"too long">>), <<>>)
     ELSE IF lookbackOutOfRange(lookbackYears)
       THEN WithCalls(validationError(<<"lookback_years must be between 1 and 10">>),
                      <<>>)
     ELSE LET calls == <<[name |-> n, lookbackYears |-> lookbackYears]>>
          IN IF IsThrow(court)
               THEN WithCalls(toolCaught("Court records check failed", court,
                                         {"court"}), calls)
               ELSE WithCalls(toolSuccess(court, {"court"}), calls)

Repeat(ch, n) == [i \in 1..n |-> ch]

\* arguments at the tool boundary: missing, empty, blank, well-formed,
\* padded with blanks beyond the limit, at the limit (EIN) and above it
ToolEinInputs ==
  {Missing, Given(<<>>), Given(<<" ", "\t">>), Given(E1Dashed),
   Given(<<" ">> \o E1Dashed \o Repeat(" ", MAX_EIN_LENGTH - Len(E1Dashed))),
   Given(Repeat("7", MAX_EIN_LENGTH)),
   Given(Repeat("7", MAX_EIN_LENGTH + 1))}

ToolNameInputs ==
  {Missing, Given(<<>>), Given(<<" ", " ">>), Given(N_Acme),
   Given(N_Acme \o Repeat(" ", MAX_NAME_LENGTH + 1 - Len(N_Acme))),
   Given(Repeat("a", MAX_NAME_LENGTH + 1))}

MaxCaseCount == 3

\* what a litigation search can return or throw
CourtAnswers ==
  {searchByOrgName(n, c) : n \in 0..1, c \in 0..MaxCaseCount} \cup
  {searchByOrgNameFailed(status) : status \in {0, 401, 429}}

\* the message of the stand-in clients of the tools' tests
Faults == {None, "boom"}

LookbackInputs ==
  {YearsOmitted} \cup {Years(t) : t \in {-10, 0, 5, 10, 15, 50, 100, 105, 110}}


OfacCheck(name) ==
  /\ lastCall' = [op |-> "ofacCheck", arg |-> name, during |-> Running # {},
                  result |-> ofacCheck(ofacNameMap, name)]
  /\ UNCHANGED <<limiter, store, disk, now, pc, loc, hist, res>>

CheckIrsRevocation(ein, fault) ==
  /\ lastCall' = [op |-> "checkIrsRevocation", ein |-> ein, fault |-> fault,
                  response |-> checkIrsRevocation(Client(irsMap, fault), ein)]
  /\ UNCHANGED <<limiter, store, disk, now, pc, loc, hist, res>>

CheckOfacSanctions(name, fault) ==
  /\ lastCall' = [op |-> "checkOfacSanctions", name |-> name, fault |-> fault,
                  response |-> checkOfacSanctions(Client(ofacNameMap, fault), name)]
  /\ UNCHANGED <<limiter, store, disk, now, pc, loc, hist, res>>

\* irsFault and ofacFault: what the two clients throw, if they do
CheckRedFlags(ein, name, court, irsFault, ofacFault) ==
  /\ lastCall' = [op |-> "checkRedFlags", ein |-> ein, name |-> name,
                  court |-> court, irsFault |-> irsFault, ofacFault |-> ofacFault,
                  response |-> checkRedFlags(Client(irsMap, irsFault),
                                             Client(ofacNameMap, ofacFault),
                                             court, ein, name)]
  /\ UNCHANGED <<limiter, store, disk, now, pc, loc, hist, res>>

CheckCourtRecords(name, lookback, court) ==
  /\ lastCall' = [op |-> "checkCourtRecords", name |-> name, lookback |-> lookback,
                  court |-> court,
                  response |-> checkCourtRecords(court, name, lookback)]
  /\ UNCHANGED <<limiter, store, disk, now, pc, loc, hist, res>>

\* ------------------------------------------------------------------------
\* The matchers on a store whose generations were published from the files
\* on disk; the calls that published them are not part of this specification.
\* ------------------------------------------------------------------------
InitMatch ==
  /\ \E c \in IrsContentIds \cup {None} :
        /\ csvFile = c
        /\ irsMap = IF c = None THEN EmptyIrsMap ELSE parseIrsCsv(c)
  /\ \E o \in OfacContentIds \cup {None} :
        /\ sdnFile = o
        /\ altFile = o
        /\ ofacNameMap = IF o = None THEN EmptyOfacMap ELSE buildOfacNameMap(o, o)
  /\ lastRefreshAt = 0
  /\ zipFile = None
  /\ manifestFile = NoManifest
  /\ now = StartTime
  /\ pc = [p \in Calls |-> "idle"]
  /\ loc = [p \in Calls |-> NoLoc]
  /\ hist = [p \in Calls |-> NoHist]
  /\ res = [p \in Calls |-> Absent]
  /\ lastCall = NoCall
  /\ InitLimiter

\* the caller has taken the result of its call
Returned ==
  /\ lastCall # NoCall
  /\ lastCall' = NoCall
  /\ UNCHANGED <<limiter, store, disk, now, pc, loc, hist, res>>

\* requests are served one after the other
NextMatch ==
  \/ lastCall = NoCall /\ \E ein \in EinInputs : IrsCheck(ein)
  \/ lastCall = NoCall /\ \E name \in NameInputs : OfacCheck(name)
  \/ lastCall = NoCall /\ \E ein \in EinInputs : LookupEin(ein)
  \/ lastCall = NoCall /\ \E name \in NameInputs : LookupName(name)
  \/ lastCall = NoCall /\ \E ein \in ToolEinInputs, fault \in Faults :
        CheckIrsRevocation(ein, fault)
  \/ lastCall = NoCall /\ \E name \in ToolNameInputs, fault \in Faults :
        CheckOfacSanctions(name, fault)
  \/ lastCall = NoCall /\ \E ein \in ToolEinInputs, name \in ToolNameInputs,
        court \in CourtAnswers \cup {Absent}, irsFault \in Faults, ofacFault \in Faults :
        CheckRedFlags(ein, name, court, irsFault, ofacFault)
  \/ lastCall = NoCall /\ \E name \in ToolNameInputs, lookback \in LookbackInputs,
        court \in CourtAnswers \cup {Absent} : CheckCourtRecords(name, lookback, court)
  \/ Returned

SpecMatch == InitMatch /\ [][NextMatch]_vars

\* ------------------------------------------------------------------------
\* The tools of one session on a store loaded from the cache: the four
\* check tools, then refreshData, and a second refreshData once the first
\* has settled.
\* ------------------------------------------------------------------------
NextTools ==
  \/ lastCall = NoCall /\ pc["r1"] = "idle" /\
        \E ein \in ToolEinInputs, fault \in Faults : CheckIrsRevocation(ein, fault)
  \/ lastCall = NoCall /\ pc["r1"] = "idle" /\
        \E name \in ToolNameInputs, fault \in Faults : CheckOfacSanctions(name, fault)
  \/ lastCall = NoCall /\ pc["r1"] = "idle" /\
        \E ein \in ToolEinInputs, name \in ToolNameInputs,
           court \in CourtAnswers \cup {Absent}, irsFault \in Faults, ofacFault \in Faults :
           CheckRedFlags(ein, name, court, irsFault, ofacFault)
  \/ lastCall = NoCall /\ pc["r1"] = "idle" /\
        \E name \in ToolNameInputs, lookback \in LookbackInputs,
           court \in CourtAnswers \cup {Absent} : CheckCourtRecords(name, lookback, court)
  \/ Returned
  \/ \E r \in Refreshes, source \in Targets \cup {None} :
        /\ lastCall = NoCall
        /\ r = "r2" => pc["r1"] \in Terminal
        /\ RefreshStart(r, source)
  \/ \E r \in Refreshes : ManifestLoaded(r)
  \/ \E r \in Refreshes, z \in {"Z_A", "Z_S", NetErr} : IrsGot(r, z)
  \/ \E r \in Refreshes : IrsWroteZip(r)
  \/ \E r \in Refreshes : IrsOpened(r)
  \/ \E r \in Refreshes, z \in {"Z_A", "Z_S"} : IrsBuffered(r, z)
  \/ \E r \in Refreshes : IrsWroteCsv(r)
  \/ \E r \in Refreshes : IrsSaved(r)
  \/ \E r \in Refreshes : IrsReadDisk(r)
  \/ \E r \in Refreshes, o \in OfacResponses : OfacGot(r, o)
  \/ \E r \in Refreshes : OfacWrote(r)
  \/ \E r \in Refreshes : OfacSaved(r)
  \/ \E r \in Refreshes : OfacReadDisk(r)

SpecTools == InitMatch /\ [][NextTools]_vars

\* ------------------------------------------------------------------------
\* The pure functions called on their own: normalizeName, aggregateFlags,
\* getRecommendation
\* ------------------------------------------------------------------------
\* words joined by single spaces
RECURSIVE Join(_)
Join(ws) ==
  IF ws = <<>> THEN <<>>
  ELSE IF Len(ws) = 1 THEN ws[1]
  ELSE ws[1] \o <<" ">> \o Join(Tail(ws))

\* the tokens of s: its maximal runs of non-whitespace characters
RECURSIVE splitFrom(_, _, _, _)
splitFrom(s, i, cur, acc) ==
  IF i > Len(s) THEN (IF cur = <<>> THEN acc ELSE Append(acc, cur))
  ELSE IF IsWhite(s[i])
         THEN splitFrom(s, i + 1, <<>>, IF cur = <<>> THEN acc ELSE Append(acc, cur))
         ELSE splitFrom(s, i + 1, Append(cur, s[i]), acc)

Split(s) == splitFrom(s, 1, <<>>, <<>>)

Count(w, ws) == Cardinality({i \in DOMAIN ws : ws[i] = w})

W_the == <<"t","h","e">>

W_acme == <<"a","c","m","e">>

W_inc == <<"i","n","c">>

\* words a name is composed of: a plain word, the article, suffix tokens
\* (one a prefix of another) and a word that is part of names
Vocabulary == {W_acme, W_the, W_inc, <<"c","o","r","p">>, <<"c","o">>, <<"f","u","n","d">>}

\* the words the normalizer's comment and its tests name as part of names
ProtectedWords ==
  { <<"n","a","t","i","o","n","a","l">>,
    <<"f","u","n","d">>,
    <<"t","r","u","s","t">>,
    <<"s","o","c","i","e","t","y">>,
    <<"i","n","t","e","r","n","a","t","i","o","n","a","l">>,
    <<"i","n","s","t","i","t","u","t","e">>,
    <<"g","r","o","u","p">>,
    <<"f","o","u","n","d","a","t","i","o","n">> }

MaxWords == 3

WordSeqs == UNION {[1..k -> Vocabulary] : k \in 1..MaxWords}

ProtectedSeqs ==
  UNION {{<<w>>, <<W_acme, w>>, <<w, W_acme>>, <<w, W_inc>>, <<W_the, w>>,
          <<W_acme, w, W_inc>>, <<W_acme, W_inc, w>>} : w \in ProtectedWords}

\* MAX_SUFFIX_ITERATIONS + 1 stacked suffix tokens
O_LongStack == Join(<<W_acme>> \o [i \in 1..(MAX_SUFFIX_ITERATIONS + 1) |-> W_inc])

\* 'acme' followed by k stacked suffix tokens
O_StackOf(k) == Join(<<W_acme>> \o [i \in 1..k |-> IF i % 2 = 1 THEN W_inc ELSE <<"l","t","d">>])

O_LeadingBlankThe == <<" ","t","h","e"," ","a","c","m","e">>

O_TrailingBlank == <<"a","c","m","e"," ","i","n","c"," ">>

O_PunctAfterSuffix == <<"A","c","m","e"," ","I","n","c"," ","!">>

O_TheAlone == <<"t","h","e">>

O_TheBlank == <<"t","h","e"," ">>

O_BlankInc == <<" ","i","n","c">>

O_Padded == <<" "," ","H","e","l","l","o"," "," ">>

O_WideGap == <<"H","e","l","l","o"," "," "," "," ","W","o","r","l","d">>

O_AcmeCorpInc == <<"A","c","m","e"," ","C","o","r","p"," ","I","n","c">>

O_IncSomething == <<"I","n","c"," ","S","o","m","e","t","h","i","n","g">>

O_TheRedCross == <<"T","h","e"," ","R","e","d"," ","C","r","o","s","s">>

O_SaveTheChildren == <<"S","a","v","e"," ","t","h","e"," ","C","h","i","l","d","r","e","n">>

O_NationalWildlifeFund == <<"N","a","t","i","o","n","a","l"," ","W","i","l","d","l","i","f","e"," ","F","u","n","d">>

O_AcmeIncDot == <<"A","c","m","e"," ","I","n","c",".">>


OddNames ==
  {<<>>, N_Jose, N_Punct, N_TheAcmeCorp, N_AcmeInc, O_LongStack,
   O_StackOf(MAX_SUFFIX_ITERATIONS - 1), O_StackOf(MAX_SUFFIX_ITERATIONS),
   O_LeadingBlankThe, O_TrailingBlank, O_PunctAfterSuffix, O_TheAlone,
   O_TheBlank, O_BlankInc, O_Padded, O_WideGap, O_AcmeCorpInc,
   O_IncSomething, O_TheRedCross, O_SaveTheChildren,
   O_NationalWildlifeFund, O_AcmeIncDot}

NormalizeInputs == {Join(ws) : ws \in WordSeqs \cup ProtectedSeqs} \cup OddNames

IrsOutcomes == [found : BOOLEAN, revoked : BOOLEAN]

OfacOutcomes == [found : BOOLEAN]

CourtOutcomes == [found : BOOLEAN, caseCount : 0..MaxCaseCount]

Severities == {"CRITICAL", "HIGH", "MEDIUM"}

Sources == {"irs_revocation", "ofac_sanctions", "court_records"}

MaxFlags == 3

FlagLists ==
  UNION {[1..k -> {Flag(v, src) : v \in Severities, src \in Sources}] : k \in 0..MaxFlags}

\* rows as parseSdnCsv and parseAltCsv return them: two entity numbers, two
\* spellings of one normalized name, a name that normalizes to nothing; an
\* alias of a known and of an unknown entity
SdnRowValues ==
  {[entNum |-> n, name |-> nm, gen |-> "P"] :
     n \in {"100", "200"}, nm \in {N_BadCo, N_Bad, N_Punct}}

AltRowValues ==
  {[entNum |-> n, altName |-> nm] : n \in {"100", "999"}, nm \in {N_Bad, N_Acme, N_Punct}}

MaxSdnRows == 2

MaxAltRows == 2

SdnRowLists == UNION {[1..k -> SdnRowValues] : k \in 0..MaxSdnRows}

AltRowLists == UNION {[1..k -> AltRowValues] : k \in 0..MaxAltRows}

\* lines of the revocation file: well-formed (plain and dashed EIN), EIN too
\* short, EIN with letters, too few fields, blank
IrsLineValues ==
  {IrsLine(E1, ""), IrsLine(E1Dashed, "2024-02-02"), IrsLine(E3, ""),
   IrsLine(EShort, ""), IrsLine(ELetters, ""),
   [nfields |-> 5, ein |-> E2, reinstatementDate |-> ""],
   [nfields |-> 0, ein |-> <<>>, reinstatementDate |-> ""]}

MaxIrsLines == 3

IrsLineLists == UNION {[1..k -> IrsLineValues \cup {HeaderLine}] : k \in 0..MaxIrsLines}

BuildOfacNameMap(sdnRows, altRows) ==
  /\ lastCall' = [op |-> "buildOfacNameMap", sdnRows |-> sdnRows, altRows |-> altRows,
                  map |-> buildOfacNameMapOfRows(sdnRows, altRows)]
  /\ UNCHANGED <<limiter, store, disk, now, pc, loc, hist, res>>

ParseIrsCsv(lines) ==
  /\ lastCall' = [op |-> "parseIrsCsv", lines |-> lines,
                  map |-> [rows |-> parseIrsLines(lines, 2, "P", EmptyFn), pad |-> 0]]
  /\ UNCHANGED <<limiter, store, disk, now, pc, loc, hist, res>>

NormalizeName(name) ==
  /\ lastCall' = [op |-> "normalizeName", arg |-> name, result |-> normalizeName(name)]
  /\ UNCHANGED <<limiter, store, disk, now, pc, loc, hist, res>>

AggregateFlags(irs, ofac, court) ==
  /\ lastCall' = [op |-> "aggregateFlags", irs |-> irs, ofac |-> ofac, court |-> court,
                  flags |-> aggregateFlags(irs, ofac, court)]
  /\ UNCHANGED <<limiter, store, disk, now, pc, loc, hist, res>>

GetRecommendation(flags) ==
  /\ lastCall' = [op |-> "getRecommendation", flags |-> flags,
                  result |-> getRecommendation(flags)]
  /\ UNCHANGED <<limiter, store, disk, now, pc, loc, hist, res>>

\* no store is involved: the one just constructed stands for it
InitPure ==
  /\ irsMap = EmptyIrsMap
  /\ ofacNameMap = EmptyOfacMap
  /\ lastRefreshAt = 0
  /\ zipFile = None
  /\ csvFile = None
  /\ sdnFile = None
  /\ altFile = None
  /\ manifestFile = NoManifest
  /\ now = StartTime
  /\ pc = [p \in Calls |-> "idle"]
  /\ loc = [p \in Calls |-> NoLoc]
  /\ hist = [p \in Calls |-> NoHist]
  /\ res = [p \in Calls |-> Absent]
  /\ lastCall = NoCall
  /\ InitLimiter

NextPure ==
  \/ lastCall = NoCall /\ \E name \in NormalizeInputs : NormalizeName(name)
  \/ lastCall = NoCall /\ \E irs \in IrsOutcomes, ofac \in OfacOutcomes,
        court \in CourtOutcomes : AggregateFlags(irs, ofac, court)
  \/ lastCall = NoCall /\ \E flags \in FlagLists : GetRecommendation(flags)
  \/ lastCall = NoCall /\ \E sdnRows \in SdnRowLists, altRows \in AltRowLists :
        BuildOfacNameMap(sdnRows, altRows)
  \/ lastCall = NoCall /\ \E lines \in IrsLineLists : ParseIrsCsv(lines)
  \/ Returned

SpecPure == InitPure /\ [][NextPure]_vars

\* ------------------------------------------------------------------------
\* courtlistener-client.ts: the rate limiter in front of every search.
\* setTimeout never resolves early; it may resolve late.
\* ------------------------------------------------------------------------
courtlistenerRateLimitMs == 500

StepMs == 250

MaxSteps == 6

\* searchByOrgName -> waitIfNeeded up to its await (or its return, when the
\* call does not have to wait)
WaitIfNeeded(c) ==
  /\ search[c].at = "idle"
  /\ LET elapsed == now - lastRequestTime
         waitTime == courtlistenerRateLimitMs - elapsed
     IN IF elapsed < courtlistenerRateLimitMs
          THEN /\ lastRequestTime' = now + waitTime
               /\ search' = [search EXCEPT ![c] =
                    [at |-> "waiting", wake |-> now + waitTime, released |-> -1]]
          ELSE /\ lastRequestTime' = now
               /\ search' = [search EXCEPT ![c] =
                    [at |-> "released", wake |-> -1, released |-> now]]
  /\ UNCHANGED <<store, disk, now, pc, loc, hist, res, lastCall>>

\* the timer of a waiting call has resolved: waitIfNeeded returns
TimerFired(c) ==
  /\ search[c].at = "waiting"
  /\ now >= search[c].wake
  /\ search' = [search EXCEPT ![c] = [@ EXCEPT !.at = "released", !.released = now]]
  /\ UNCHANGED <<store, disk, now, pc, loc, hist, res, lastCall, lastRequestTime>>

Elapse ==
  /\ now < StartTime + MaxSteps * StepMs
  /\ now' = now + StepMs
  /\ UNCHANGED <<store, disk, pc, loc, hist, res, lastCall, limiter>>

NextLimiter ==
  \/ \E c \in Searches : WaitIfNeeded(c)
  \/ \E c \in Searches : TimerFired(c)
  \/ Elapse

SpecLimiter == InitPure /\ [][NextLimiter]_vars

\* ------------------------------------------------------------------------
\* Properties
\* ------------------------------------------------------------------------
CompleteIrsGens == {EmptyIrsMap} \cup {parseIrsCsv(c) : c \in IrsContentIds}

CompleteOfacGens ==
  {EmptyOfacMap} \cup {buildOfacNameMap(s, a) : s \in OfacContentIds, a \in OfacContentIds}

SameGeneration(rows) == \A i, j \in DOMAIN rows : rows[i].gen = rows[j].gen

IsLookup == lastCall.op \in {"lookupEin", "lookupName"}

\* C1: at every moment, also while initialize() or refresh() is in flight,
\* each active map is a complete generation (the empty one of construction
\* or the whole result of one parse pass), every key of the name index holds
\* rows of one generation only, the rows a lookup returns are the rows one
\* complete generation holds for that key and all come from the same
\* generation, and an active map changes only in the step that publishes a
\* map (after a download or a read of the cache), never while one is built.
C1_AtomicPublication ==
  /\ [](/\ irsMap \in CompleteIrsGens
        /\ ofacNameMap \in CompleteOfacGens
        /\ \A k \in DOMAIN ofacNameMap.idx : SameGeneration(ofacNameMap.idx[k])
        /\ IsLookup =>
             /\ SameGeneration(lastCall.rows)
             /\ lastCall.op = "lookupEin" =>
                  \E g \in CompleteIrsGens :
                     lastCall.rows = IF lookupEin(g, lastCall.arg) = Absent THEN <<>>
                                     ELSE <<lookupEin(g, lastCall.arg)>>
             /\ lastCall.op = "lookupName" =>
                  \E g \in CompleteOfacGens : lastCall.rows = lookupName(g, lastCall.arg))
  /\ [][/\ irsMap' # irsMap =>
             \E p \in Calls : pc[p] \in {"irs_wcsv", "irs_read"} /\ pc'[p] # pc[p]
        /\ ofacNameMap' # ofacNameMap =>
             \E p \in Calls : pc[p] \in {"ofac_w", "ofac_read"} /\ pc'[p] # pc[p]]_vars

\* a lookup issued while a refresh holds a downloaded, not yet published
\* snapshot returns the two rows of the generation loaded before
C1_Witness ==
  /\ lastCall.op = "lookupName"
  /\ lastCall.during
  /\ Len(lastCall.rows) = 2
  /\ pc["r1"] = "ofac_w"

BelowIrsFloor(c) == irsTooSmall(IrsSize(parseIrsCsv(c)))

BelowOfacFloor(s, a) == ofacTooSmall(OfacSize(buildOfacNameMap(s, a)))

\* C2: the store never serves a row of a payload whose parsed count is below
\* the floor: no row of the active revocation map, of the active sanctions
\* index or of a lookup result comes from such a payload (the cache files
\* left by earlier runs are all above the floor).
C2_RejectedPayloadNeverServed ==
  /\ \A k \in DOMAIN irsMap.rows : ~BelowIrsFloor(irsMap.rows[k].gen)
  /\ \A k \in DOMAIN ofacNameMap.idx : \A i \in DOMAIN ofacNameMap.idx[k] :
        ~BelowOfacFloor(ofacNameMap.idx[k][i].gen, ofacNameMap.idx[k][i].gen)
  /\ lastCall.op = "lookupEin" =>
        \A i \in DOMAIN lastCall.rows : ~BelowIrsFloor(lastCall.rows[i].gen)

\* C3: the cache files on disk only ever hold a payload that passes the
\* cardinality validation.
C3_CacheHoldsValidatedPayload ==
  /\ csvFile # None => ~BelowIrsFloor(csvFile)
  /\ ofacCached(sdnFile, altFile) => ~BelowOfacFloor(sdnFile, altFile)

\* C4: when two refreshes are invoked less than 60 seconds apart, the later
\* one (r2) is rejected by the cooldown and issues no network request.
C4_CooldownBetweenInvocations ==
  (/\ pc["r1"] # "idle"
   /\ pc["r2"] # "idle"
   /\ hist["r2"].t0 - hist["r1"].t0 < REFRESH_COOLDOWN_MS)
  => (/\ pc["r2"] = "rejected"
      /\ hist["r2"].netIrs = 0
      /\ hist["r2"].netOfac = 0)

\* C5: the step in which a refresh is rejected by the cooldown leaves both
\* active maps, lastRefreshAt and every file unchanged; the rejected call
\* has issued no network request and loaded no manifest, and refreshData
\* reports it as a failure result (success = false), not as a throw.
C5_RejectedRefreshChangesNothing ==
  /\ [](\A r \in Refreshes : pc[r] = "rejected" =>
          /\ hist[r].netIrs = 0 /\ hist[r].netOfac = 0
          /\ hist[r].saved = {}
          /\ loc[r].man = Absent
          /\ res[r].success = FALSE /\ res[r].threw = FALSE
          /\ res[r].error = "cooldown" /\ res[r].waitSec \in 1..60)
  /\ [][\A r \in Refreshes : (pc[r] # "rejected" /\ pc'[r] = "rejected") =>
          /\ now - lastRefreshAt < REFRESH_COOLDOWN_MS
          /\ UNCHANGED <<irsMap, ofacNameMap, lastRefreshAt, zipFile, csvFile,
                         sdnFile, altFile, manifestFile>>]_vars

\* a refresh rejected 30 seconds after the previous one returned
C5_Witness ==
  /\ pc["r1"] = "done"
  /\ pc["r2"] = "rejected"
  /\ res["r2"].waitSec = 30

IrsAttemptPcs == {"irs_get", "irs_wzip", "irs_open", "irs_buf", "irs_wcsv"}

OfacAttemptPcs == {"ofac_get", "ofac_w"}

\* where a step of the download cycle leads when nothing fails
NormalNextPc(q) ==
  CASE q = "irs_get" -> "irs_wzip"
    [] q = "irs_wzip" -> "irs_open"
    [] q = "irs_open" -> "irs_buf"
    [] q = "irs_buf" -> "irs_wcsv"
    [] q = "irs_wcsv" -> "irs_save"
    [] q = "ofac_get" -> "ofac_w"
    [] q = "ofac_w" -> "ofac_save"

StepFails(p, attempt) ==
  /\ pc[p] \in attempt
  /\ pc'[p] \notin {pc[p], NormalNextPc(pc[p])}

Throws(p) ==
  /\ pc'[p] = "failed"
  /\ IF p = "init" THEN res'[p].threw ELSE ~res'[p].success /\ res'[p].error = "load"

\* C6 as stated: initialize() starts to fail only in a download step of a
\* dataset that the manifest marked stale, with no cached copy on disk.
C6_InitFailsOnlyIfStale ==
  [][(pc["init"] # "failed" /\ pc'["init"] = "failed") =>
       \/ /\ StepFails("init", IrsAttemptPcs)
          /\ loc["init"].irsStale
          /\ csvFile' = None
       \/ /\ StepFails("init", OfacAttemptPcs)
          /\ loc["init"].ofacStale
          /\ ~ofacCached(sdnFile', altFile')]_vars

\* C6 amended: initialize() starts to fail only in a download step of a
\* dataset whose download was attempted because the manifest marked it stale
\* or because its cache was missing (then the download runs on a manifest of
\* its own), with no cached copy on disk when the failure is handled; and it
\* never fails outside a download step.
C6_InitFailsOnlyAfterFailedDownload ==
  [][(pc["init"] # "failed" /\ pc'["init"] = "failed") =>
       \/ /\ StepFails("init", IrsAttemptPcs)
          /\ loc["init"].irsStale \/ loc["init"].own # Absent
          /\ csvFile' = None
          /\ hist["init"].netIrs = 1
       \/ /\ StepFails("init", OfacAttemptPcs)
          /\ loc["init"].ofacStale \/ loc["init"].own # Absent
          /\ ~ofacCached(sdnFile', altFile')
          /\ hist["init"].netOfac = 2]_vars

\* initialize() has thrown although the manifest marks both datasets fresh
C6_Witness ==
  /\ pc["init"] = "failed"
  /\ res["init"].threw
  /\ manifestFile = [irs_revocation |-> FreshIrsEntry, ofac_sdn |-> FreshOfacEntry]

\* C7: when a step of a download cycle fails, the call goes on to read the
\* cache if a cached copy of the dataset was on disk before that step
\* (revocation: the extracted file; sanctions: both files) and otherwise the
\* error reaches the caller; the failing step publishes nothing; and the
\* read of the cache publishes the generation parsed from it and returns
\* without error.
C7_DiskFallback ==
  [][\A p \in Calls :
       /\ StepFails(p, IrsAttemptPcs) =>
            /\ irsMap' = irsMap
            /\ IF csvFile # None THEN pc'[p] = "irs_read" ELSE Throws(p)
       /\ (pc[p] = "irs_read" /\ pc'[p] # "irs_read") =>
            /\ irsMap' = parseIrsCsv(csvFile)
            /\ pc'[p] # "failed"
       /\ StepFails(p, OfacAttemptPcs) =>
            /\ ofacNameMap' = ofacNameMap
            /\ IF sdnFile # None /\ altFile # None
                 THEN pc'[p] = "ofac_read" ELSE Throws(p)
       /\ (pc[p] = "ofac_read" /\ pc'[p] # "ofac_read") =>
            /\ ofacNameMap' = buildOfacNameMap(sdnFile, altFile)
            /\ pc'[p] = "done"]_vars

\* C8: a manifest entry on disk changes only in the saveManifest step of a
\* download cycle of its own dataset that has published a validated
\* generation, and the counts it then holds are those of that generation.
C8_ManifestOnlyAfterPublish ==
  [][/\ manifestFile'.irs_revocation # manifestFile.irs_revocation =>
          /\ \E p \in Calls : pc[p] = "irs_save" /\ pc'[p] # "irs_save"
          /\ manifestFile'.irs_revocation.row_count = IrsSize(irsMap)
     /\ manifestFile'.ofac_sdn # manifestFile.ofac_sdn =>
          /\ \E p \in Calls : pc[p] = "ofac_save" /\ pc'[p] # "ofac_save"
          /\ manifestFile'.ofac_sdn.sdn_count = SdnCount(sdnFile)
          /\ manifestFile'.ofac_sdn.alt_count = AltCount(altFile)]_vars

\* C9: a refresh that has returned successfully has saved the manifest entry
\* of every dataset it targeted.
C9_SuccessUpdatesManifest ==
  \A r \in Refreshes : pc[r] = "done" =>
     /\ refreshIrs(loc[r].tgt) => "irs" \in hist[r].saved
     /\ refreshOfac(loc[r].tgt) => "ofac" \in hist[r].saved

\* C10: for an EIN that is 9 digits once dashes and whitespace are stripped,
\* check classifies by the row the active map holds under the stripped key:
\* no row, found = revoked = false; a row with an empty reinstatement date,
\* found = revoked = true; a row with a reinstatement date, found = true and
\* revoked = false; revoked implies found; the key queried is the stripped one.
C10_RevocationClassification ==
  (lastCall.op = "irsCheck" /\ isNineDigits(stripEin(lastCall.arg))) =>
     LET key == stripEin(lastCall.arg)
         r == lastCall.result
     IN /\ r.queried = <<key>>
        /\ r.revoked => r.found
        /\ key \notin DOMAIN irsMap.rows => ~r.found /\ ~r.revoked
        /\ key \in DOMAIN irsMap.rows =>
             /\ r.found
             /\ r.revoked <=> (irsMap.rows[key].reinstatementDate = "")

\* a dashed EIN whose row carries a reinstatement date: found, not revoked
C10_Witness ==
  /\ lastCall.op = "irsCheck"
  /\ lastCall.arg = E1Dashed
  /\ lastCall.result.found
  /\ ~lastCall.result.revoked

\* C11: for an EIN that is not 9 digits once dashes and whitespace are
\* stripped, check returns found = false and revoked = false with the
\* invalid-format detail and does not call lookupEin.
C11_MalformedEinRejected ==
  (lastCall.op = "irsCheck" /\ ~isNineDigits(stripEin(lastCall.arg))) =>
     /\ ~lastCall.result.found
     /\ ~lastCall.result.revoked
     /\ lastCall.result.detail = "invalid"
     /\ lastCall.result.queried = <<>>

\* an EIN with letters has been rejected although the store holds rows
C11_Witness ==
  /\ lastCall.op = "irsCheck"
  /\ lastCall.arg = ELetters
  /\ lastCall.result.detail = "invalid"
  /\ irsMap # EmptyIrsMap

\* C12: the sanctions check reports found exactly when lookupName(name) is
\* not empty; then matches has one entry per returned row, in the same
\* order, and an entry is matched on 'primary' when the normalized primary
\* name of its row equals the normalized query and on 'alias' otherwise;
\* with an empty lookup, found is false and matches is empty.
C12_SanctionsMatches ==
  lastCall.op = "ofacCheck" =>
     LET rows == lookupName(ofacNameMap, lastCall.arg)
         r == lastCall.result
     IN /\ r.found <=> rows # <<>>
        /\ Len(r.matches) = Len(rows)
        /\ \A i \in DOMAIN rows :
              /\ r.matches[i].entNum = rows[i].entNum
              /\ r.matches[i].name = rows[i].name
              /\ r.matches[i].matchedOn =
                   IF normalizeName(rows[i].name) = normalizeName(lastCall.arg)
                     THEN "primary" ELSE "alias"

\* a query that matches one entity by its primary name and one by an alias
C12_Witness ==
  /\ lastCall.op = "ofacCheck"
  /\ lastCall.arg = N_Acme
  /\ Len(lastCall.result.matches) = 2
  /\ lastCall.result.matches[1].matchedOn = "primary"
  /\ lastCall.result.matches[2].matchedOn = "alias"

\* C19: on a store whose map is empty (not initialized, or nothing loaded)
\* lookupEin returns no row and lookupName the empty sequence, the
\* revocation check returns found = false and revoked = false with one of
\* its two ordinary details, and the sanctions check returns found = false
\* with no matches.
C19_EmptyStoreLookups ==
  /\ (irsMap = EmptyIrsMap /\ lastCall.op = "lookupEin") => lastCall.rows = <<>>
  /\ (ofacNameMap = EmptyOfacMap /\ lastCall.op = "lookupName") => lastCall.rows = <<>>
  /\ (irsMap = EmptyIrsMap /\ lastCall.op = "irsCheck") =>
        /\ ~lastCall.result.found
        /\ ~lastCall.result.revoked
        /\ lastCall.result.detail \in {"not found", "invalid"}
  /\ (ofacNameMap = EmptyOfacMap /\ lastCall.op = "ofacCheck") =>
        /\ ~lastCall.result.found
        /\ lastCall.result.matches = <<>>

\* a well-formed EIN checked against the empty store: not found
C19_Witness ==
  /\ irsMap = EmptyIrsMap
  /\ lastCall.op = "irsCheck"
  /\ lastCall.arg = E1
  /\ lastCall.result.detail = "not found"

IsTool == lastCall.op \in {"checkRedFlags", "checkIrsRevocation", "checkOfacSanctions"}

TakesEin == lastCall.op \in {"checkRedFlags", "checkIrsRevocation"}

TakesName == lastCall.op \in {"checkRedFlags", "checkOfacSanctions"}

Rejected(response) ==
  /\ ~response.success
  /\ response.error \in {<<"required">>, <<"too long">>}
  /\ response.invoked = {}
  /\ response.data = Absent

SourceRank(src) ==
  CASE src = "irs_revocation" -> 1
    [] src = "ofac_sanctions" -> 2
    [] src = "court_records" -> 3

HasFlag(flags, src) == \E i \in DOMAIN flags : flags[i].source = src

\* C13: aggregateFlags returns at most three flags, at most one per source,
\* in the order revocation, sanctions, litigation; a revocation flag is
\* present exactly when the revocation result is revoked (so never for a
\* reinstated one) and is CRITICAL; a sanctions flag is present exactly when
\* the sanctions result is found and is CRITICAL; a litigation flag is HIGH
\* when caseCount >= 3 and MEDIUM otherwise.
C13_FlagsOrderAndSeverity ==
  lastCall.op = "aggregateFlags" =>
     LET flags == lastCall.flags
     IN /\ Len(flags) <= 3
        /\ \A i, j \in DOMAIN flags :
              i < j => SourceRank(flags[i].source) < SourceRank(flags[j].source)
        /\ HasFlag(flags, "irs_revocation") <=> lastCall.irs.revoked
        /\ HasFlag(flags, "ofac_sanctions") <=> lastCall.ofac.found
        /\ (lastCall.irs.found /\ ~lastCall.irs.revoked)
              => ~HasFlag(flags, "irs_revocation")
        /\ \A i \in DOMAIN flags :
              flags[i].severity =
                 IF flags[i].source \in {"irs_revocation", "ofac_sanctions"}
                   THEN "CRITICAL"
                 ELSE IF lastCall.court.caseCount >= 3 THEN "HIGH" ELSE "MEDIUM"

\* revoked, sanctioned, one case: three flags in order, the last MEDIUM
C13_Witness ==
  /\ lastCall.op = "aggregateFlags"
  /\ lastCall.irs.revoked
  /\ lastCall.ofac.found
  /\ lastCall.court = [found |-> TRUE, caseCount |-> 1]
  /\ lastCall.flags = <<Flag("CRITICAL", "irs_revocation"),
                        Flag("CRITICAL", "ofac_sanctions"),
                        Flag("MEDIUM", "court_records")>>

\* C14 as stated: aggregateFlags produces a litigation flag exactly when the
\* litigation result has caseCount >= 1, whatever its found field is.
C14_LitigationFlagIffCases ==
  lastCall.op = "aggregateFlags" =>
     (HasFlag(lastCall.flags, "court_records") <=> lastCall.court.caseCount >= 1)

\* C15: getRecommendation depends on the set of severities of the flags
\* only: CLEAN without flags, FLAG with flags none of which is CRITICAL,
\* BLOCK with a CRITICAL flag at any position.
C15_RecommendationOfFlagSet ==
  lastCall.op = "getRecommendation" =>
     LET severities == {lastCall.flags[i].severity : i \in DOMAIN lastCall.flags}
     IN lastCall.result =
          IF "CRITICAL" \in severities THEN "BLOCK"
          ELSE IF severities # {} THEN "FLAG"
          ELSE "CLEAN"

\* a CRITICAL flag that is not the first one still blocks
C15_Witness ==
  /\ lastCall.op = "getRecommendation"
  /\ Len(lastCall.flags) = 3
  /\ lastCall.flags[1].severity = "MEDIUM"
  /\ lastCall.flags[3].severity = "CRITICAL"
  /\ lastCall.result = "BLOCK"

\* C16 as stated: normalizing a normalized name changes nothing.
C16_NormalizeIdempotent ==
  lastCall.op = "normalizeName" => normalizeName(lastCall.result) = lastCall.result

\* the name after steps 1 to 3: diacritics folded, lowercased, punctuation
\* removed
Cleaned(name) ==
  SelectSeq(MapSeq(MapSeq(name, stripDiacritic), toLowerCase), IsKeptChar)

\* letters only, tokens separated by single spaces, no surrounding blanks
WellFormed(name) ==
  /\ name # <<>>
  /\ Range(name) \subseteq Range(LowerChars) \cup Range(UpperChars) \cup {" "}
  /\ Join(Split(name)) = name

\* C17: for a name of words separated by single spaces, the result is the
\* name (without its leading 'the') minus tokens removed from its end only;
\* every removed token is on the suffix list, and removal goes on until the
\* last token is not a suffix, one token is left or the iteration cap is
\* reached.  Tokens before the last non-suffix token are kept.  For every
\* input, each of national, fund, trust, society, international,
\* institute, group and foundation occurs in the result as often as in the
\* input.
C17_TrailingSuffixesStripped ==
  lastCall.op = "normalizeName" =>
     LET out == Split(lastCall.result)
         ws == Split(Cleaned(lastCall.arg))
         core == IF Len(ws) > 1 /\ ws[1] = W_the THEN Tail(ws) ELSE ws
     IN /\ \A w \in ProtectedWords : Count(w, out) = Count(w, ws)
        /\ ProtectedWords \cap ORG_SUFFIXES = {}
        /\ WellFormed(lastCall.arg) =>
              /\ lastCall.result = Join(out)
              /\ Len(out) >= 1
              /\ Len(out) <= Len(core)
              /\ out = SubSeq(core, 1, Len(out))
              /\ \A i \in (Len(out) + 1)..Len(core) : core[i] \in ORG_SUFFIXES
              /\ \/ Len(out) = 1
                 \/ out[Len(out)] \notin ORG_SUFFIXES
                 \/ Len(core) - Len(out) = MAX_SUFFIX_ITERATIONS

\* 'Acme Corp Inc' has lost both of its stacked suffixes
C17_Witness ==
  /\ lastCall.op = "normalizeName"
  /\ lastCall.arg = O_AcmeCorpInc
  /\ lastCall.result = W_acme

\* the cleaned name begins with 'the' followed by whitespace
StartsWithThe(c) ==
  Len(c) >= 4 /\ SubSeq(c, 1, 3) = W_the /\ IsWhite(c[4])

\* C18: the result holds every 'the' token of the name except a 'the' that
\* begins the name; so a 'the' after the first token is never removed, and
\* the one beginning the name is.
C18_OnlyLeadingTheRemoved ==
  lastCall.op = "normalizeName" =>
     LET c == Cleaned(lastCall.arg)
         ws == Split(c)
         out == Split(lastCall.result)
     IN /\ Count(W_the, out) =
             Count(W_the, ws) - (IF StartsWithThe(c) THEN 1 ELSE 0)
        /\ StartsWithThe(c) => ws[1] = W_the
        /\ (WellFormed(lastCall.arg) /\ Len(ws) > 1 /\ ws[1] # W_the) =>
              \A i \in DOMAIN ws : ws[i] = W_the => (i \in DOMAIN out /\ out[i] = W_the)

\* 'Save the Children' keeps its 'the'
C18_Witness ==
  /\ lastCall.op = "normalizeName"
  /\ lastCall.arg = O_SaveTheChildren
  /\ Count(W_the, Split(lastCall.result)) = 1
  /\ Split(lastCall.result)[2] = W_the

\* C21: every response of checkRedFlags, checkIrsRevocation,
\* checkOfacSanctions and checkCourtRecords is a result, never a throw; when
\* a client throws, the response has success = false and an error that
\* holds the thrown message; every response carries the attribution and
\* has data exactly when success = true.  refreshData settles with a result
\* as well, a failure with the error of the refresh that threw.
C21_ToolsNeverThrow ==
  /\ (IsTool \/ lastCall.op = "checkCourtRecords") =>
        LET r == lastCall.response
            thrown ==
              (IF lastCall.op \in {"checkIrsRevocation", "checkOfacSanctions"}
                    /\ lastCall.fault # None THEN {lastCall.fault} ELSE {}) \cup
              (IF lastCall.op = "checkRedFlags" /\ lastCall.irsFault # None
                 THEN {lastCall.irsFault} ELSE {}) \cup
              (IF lastCall.op = "checkRedFlags" /\ lastCall.ofacFault # None
                 THEN {lastCall.ofacFault} ELSE {}) \cup
              (IF lastCall.op \in {"checkRedFlags", "checkCourtRecords"}
                    /\ IsThrow(lastCall.court) THEN {lastCall.court.message} ELSE {})
        IN /\ ~IsThrow(r)
           /\ r.attribution = ATTRIBUTION
           /\ r.success <=> r.data # Absent
           /\ r.success => r.error = <<>>
           /\ ~r.success => r.error # <<>>
           /\ (r.invoked # {} /\ thrown # {}) =>
                 /\ ~r.success
                 /\ \E m \in thrown : m \in Range(r.error)
  /\ \A r \in Refreshes :
        res[r] # Absent =>
           /\ ~res[r].threw
           /\ res[r].attribution = ATTRIBUTION
           /\ res[r].success <=> res[r].data # Absent
           /\ ~res[r].success => res[r].error \in {"cooldown", "load"}

\* checkRedFlags has caught the error thrown by the litigation search
C21_Witness ==
  /\ lastCall.op = "checkRedFlags"
  /\ lastCall.irsFault = None
  /\ lastCall.ofacFault = None
  /\ lastCall.court = Thrown("token invalid")
  /\ ~lastCall.response.success
  /\ lastCall.response.error = <<"Red flag check failed", "token invalid">>
  /\ lastCall.response.invoked = {"irs", "ofac", "court"}

\* C22: with no litigation client, checkRedFlags on valid input and working
\* clients succeeds, has run the revocation and the sanctions check and not
\* the litigation search, reports court_records as found = false, caseCount
\* 0 with the 'not configured' detail, and holds no litigation flag;
\* checkCourtRecords then fails with the 'not configured' error.
C22_NoLitigationClient ==
  /\ (/\ lastCall.op = "checkRedFlags"
      /\ lastCall.court = Absent
      /\ lastCall.irsFault = None
      /\ lastCall.ofacFault = None
      /\ ~Rejected(lastCall.response)) =>
        LET r == lastCall.response
        IN /\ r.success
           /\ r.invoked = {"irs", "ofac"}
           /\ r.data.checks.irs_revocation = irsCheck(irsMap, trimmed(lastCall.ein))
           /\ r.data.checks.ofac_sanctions = ofacCheck(ofacNameMap, trimmed(lastCall.name))
           /\ r.data.checks.court_records =
                 [found |-> FALSE, detail |-> "not configured", caseCount |-> 0]
           /\ ~HasFlag(r.data.flags, "court_records")
  /\ (lastCall.op = "checkCourtRecords" /\ lastCall.court = Absent) =>
        /\ ~lastCall.response.success
        /\ lastCall.response.error = <<"not configured">>
        /\ lastCall.response.calls = <<>>

\* a report made without a litigation client that still blocks on a
\* sanctions match
C22_Witness ==
  /\ lastCall.op = "checkRedFlags"
  /\ lastCall.court = Absent
  /\ lastCall.response.success
  /\ lastCall.response.data.checks.ofac_sanctions.found
  /\ lastCall.response.data.summary.recommendation = "BLOCK"

\* C24: checkCourtRecords with a configured client and a valid name: a
\* whole lookback_years outside 1..10 is refused with 'lookback_years must
\* be between 1 and 10' and the client is not called; a whole value in
\* 1..10 makes exactly one search with the trimmed name and that value; an
\* omitted value makes one search with 1.
C24_LookbackRange ==
  (/\ lastCall.op = "checkCourtRecords"
   /\ lastCall.court # Absent
   /\ trimmed(lastCall.name) # <<>>
   /\ Len(trimmed(lastCall.name)) <= MAX_NAME_LENGTH) =>
     LET r == lastCall.response
         lb == lastCall.lookback
         whole == lb.given /\ lb.tenths % 10 = 0
         years == lb.tenths \div 10
     IN /\ (whole /\ (years < 1 \/ years > 10)) =>
              /\ ~r.success
              /\ r.error = <<"lookback_years must be between 1 and 10">>
              /\ r.calls = <<>>
              /\ r.invoked = {}
        /\ (whole /\ years >= 1 /\ years <= 10) =>
              r.calls = <<[name |-> trimmed(lastCall.name), lookbackYears |-> years]>>
        /\ ~lb.given =>
              r.calls = <<[name |-> trimmed(lastCall.name), lookbackYears |-> 1]>>

\* lookback_years = 11 has been refused
C24_Witness ==
  /\ lastCall.op = "checkCourtRecords"
  /\ lastCall.lookback = Years(110)
  /\ lastCall.court = searchByOrgName(1, 1)
  /\ lastCall.name = Given(N_Acme)
  /\ lastCall.response.error = <<"lookback_years must be between 1 and 10">>
  /\ lastCall.response.calls = <<>>

\* C25 as stated: in the index buildOfacNameMap returns, no key's sequence
\* holds two rows with the same entity number.
C25_NoDuplicateEntity ==
  lastCall.op = "buildOfacNameMap" =>
     \A key \in DOMAIN lastCall.map :
        \A i, j \in DOMAIN lastCall.map[key] :
           i # j => lastCall.map[key][i].entNum # lastCall.map[key][j].entNum

\* the aliases whose entity number is that of a primary row
JoinedAliases(sdnRows, altRows) ==
  {a \in Range(altRows) : \E r \in Range(sdnRows) : r.entNum = a.entNum}

\* C26: every key of the index is the non-empty normalized form of a
\* primary name or of the name of an alias that has a primary entity; every
\* row under a key is one of the primary rows, and either its own name
\* normalizes to the key or an alias with its entity number does; aliases
\* without a primary entity change nothing.
C26_IndexConstruction ==
  lastCall.op = "buildOfacNameMap" =>
     LET sdnRows == lastCall.sdnRows
         altRows == lastCall.altRows
         joined == JoinedAliases(sdnRows, altRows)
         IsJoined(a) == a \in joined
     IN /\ \A key \in DOMAIN lastCall.map :
              /\ key # <<>>
              /\ lastCall.map[key] # <<>>
              /\ \/ \E r \in Range(sdnRows) : normalizeName(r.name) = key
                 \/ \E a \in joined : normalizeName(a.altName) = key
              /\ \A i \in DOMAIN lastCall.map[key] :
                    LET row == lastCall.map[key][i]
                    IN /\ row \in Range(sdnRows)
                       /\ \/ normalizeName(row.name) = key
                          \/ \E a \in joined :
                                a.entNum = row.entNum /\ normalizeName(a.altName) = key
        /\ \A r \in Range(sdnRows) :
              normalizeName(r.name) # <<>> =>
                 /\ normalizeName(r.name) \in DOMAIN lastCall.map
                 /\ r \in Range(lastCall.map[normalizeName(r.name)])
        /\ \A a \in joined :
              normalizeName(a.altName) # <<>> =>
                 /\ normalizeName(a.altName) \in DOMAIN lastCall.map
                 /\ \E row \in Range(lastCall.map[normalizeName(a.altName)]) :
                       row.entNum = a.entNum
        /\ lastCall.map = buildOfacNameMapOfRows(sdnRows, SelectSeq(altRows, IsJoined))

\* an alias of entity 100 and an alias of the unknown entity 999: the first
\* is indexed under its own key with the primary row, the second is not
C26_Witness ==
  /\ lastCall.op = "buildOfacNameMap"
  /\ lastCall.sdnRows = <<[entNum |-> "100", name |-> N_BadCo, gen |-> "P"]>>
  /\ lastCall.altRows = <<[entNum |-> "999", altName |-> N_Bad],
                          [entNum |-> "100", altName |-> N_Acme]>>
  /\ DOMAIN lastCall.map = {normalizeName(N_BadCo), normalizeName(N_Acme)}
  /\ lastCall.map[normalizeName(N_Acme)] = lastCall.sdnRows

\* C27: every key of a parsed EIN map is 9 digits and is the ein of its
\* row; the key comes from a line after the first that has at least 11
\* fields and whose EIN, stripped of dashes and whitespace, is the key, and
\* every such line is in the map; and lookupEin answers the same for an EIN
\* written with a dash, with blanks, and plainly.
C27_EinMapKeys ==
  lastCall.op = "parseIrsCsv" =>
     LET lines == lastCall.lines
         rows == lastCall.map.rows
         Good(i) == /\ i >= 2
                    /\ lines[i].nfields >= 11
                    /\ isNineDigits(stripEin(lines[i].ein))
     IN /\ \A key \in DOMAIN rows :
              /\ isNineDigits(key)
              /\ rows[key].ein = key
              /\ \E i \in DOMAIN lines : Good(i) /\ stripEin(lines[i].ein) = key
        /\ \A i \in DOMAIN lines : Good(i) => stripEin(lines[i].ein) \in DOMAIN rows
        /\ lookupEin(lastCall.map, E1Dashed) = lookupEin(lastCall.map, E1)
        /\ lookupEin(lastCall.map, ESpaced) = lookupEin(lastCall.map, E2)

\* a file whose first line holds an EIN, followed by a dashed EIN, a short
\* one and a line with too few fields: only the dashed one is in the map
C27_Witness ==
  /\ lastCall.op = "parseIrsCsv"
  /\ lastCall.lines = <<IrsLine(E3, ""), IrsLine(E1Dashed, "2024-02-02"),
                        IrsLine(EShort, "")>>
  /\ DOMAIN lastCall.map.rows = {E1}
  /\ lookupEin(lastCall.map, E1Dashed) # Absent

\* the first entry of archive z declares, or extracts to, more than the ceiling
DeclaresOverCeiling(z) == Zip(z).nfiles > 0 /\ Zip(z).uncompressedSize > MAX_ZIP_SIZE_BYTES

ExtractsOverCeiling(z) == Zip(z).nfiles > 0 /\ Zip(z).length > MAX_ZIP_SIZE_BYTES

\* C28: when the archive a call has opened declares a size above the
\* ceiling, or the bytes it extracts exceed the ceiling, that step writes
\* nothing to the extracted cache, publishes nothing and saves no manifest,
\* and the call takes the fallback: it reads the cache when the extracted
\* file exists and fails otherwise.  A call reaches the write of the
\* extracted file only with content that stayed within the ceiling.
C28_ZipBombRejected ==
  [][\A p \in Calls :
       /\ (/\ pc'[p] # pc[p]
           /\ \/ pc[p] = "irs_open" /\ DeclaresOverCeiling(zipFile)
              \/ /\ pc[p] = "irs_buf"
                 /\ \A z \in {loc[p].dir, zipFile} : ExtractsOverCeiling(z))
          => /\ csvFile' = csvFile
             /\ irsMap' = irsMap
             /\ manifestFile' = manifestFile
             /\ pc'[p] = IF csvFile # None THEN "irs_read" ELSE "failed"
       /\ (pc[p] # "irs_wcsv" /\ pc'[p] = "irs_wcsv")
          => /\ pc[p] = "irs_buf"
             /\ \E z \in {loc[p].dir, zipFile} :
                   /\ ~ExtractsOverCeiling(z)
                   /\ loc'[p].content = Zip(z).content
       /\ csvFile' # csvFile => \E q \in Calls : pc[q] = "irs_wcsv" /\ csvFile' = loc[q].content]_vars

\* initialize() on a stale manifest received an archive that declares no
\* size and extracts to more than the ceiling: the cache of the earlier run
\* was read instead and is still on disk
C28_Witness ==
  /\ zipFile = "Z_bomb"
  /\ pc["init"] = "done"
  /\ pc["r1"] = "idle"
  /\ hist["init"].netIrs = 1
  /\ csvFile = "O"
  /\ irsMap = parseIrsCsv("O")

\* initialize() moves on from p to q
InitMoves(from, to) == pc["init"] \in from /\ pc'["init"] # pc["init"] /\ pc'["init"] \in to

\* C29: in initialize(), when the manifest marks the revocation data fresh
\* and the extracted file exists, the file is read with no request issued
\* and what it parses to is published, also when it holds fewer rows than
\* the floor; a request for fresh revocation data is prepared only when the
\* file is missing.  The same for the sanctions data and its two files.
C29_FreshCacheLoadedOffline ==
  [][LET irsFresh == ~isStale(manifestFile.irs_revocation, now)
         ofacFresh == ~loc["init"].ofacStale
         h == hist'["init"]
     IN /\ (InitMoves({"lm"}, {"irs_read", "irs_lm2", "irs_get"}) /\ irsFresh)
           => /\ h.netIrs = 0
              /\ pc'["init"] = IF csvFile # None THEN "irs_read" ELSE "irs_lm2"
        /\ (InitMoves({"irs_read"}, {"ofac_read", "ofac_lm2", "ofac_get"})
            /\ hist["init"].netIrs = 0)
           => /\ irsMap' = parseIrsCsv(csvFile)
              /\ h.netIrs = 0
              /\ UNCHANGED disk
        /\ (InitMoves({"irs_read", "irs_save"}, {"ofac_read", "ofac_lm2", "ofac_get"})
            /\ ofacFresh)
           => /\ h.netOfac = 0
              /\ pc'["init"] = IF sdnFile # None /\ altFile # None
                                 THEN "ofac_read" ELSE "ofac_lm2"
        /\ (InitMoves({"ofac_read"}, Terminal) /\ hist["init"].netOfac = 0)
           => /\ ofacNameMap' = buildOfacNameMap(sdnFile, altFile)
              /\ pc'["init"] = "done"
              /\ h.netOfac = 0
              /\ UNCHANGED disk]_vars

\* initialize() has returned on a fresh manifest and caches below the
\* floors: no request was made and both small generations are active
C29_Witness ==
  /\ pc["init"] = "done"
  /\ manifestFile = [irs_revocation |-> FreshIrsEntry, ofac_sdn |-> FreshOfacEntry]
  /\ hist["init"].netIrs = 0
  /\ hist["init"].netOfac = 0
  /\ csvFile = "S"
  /\ irsMap = parseIrsCsv("S")
  /\ irsTooSmall(IrsSize(irsMap))
  /\ ofacNameMap = buildOfacNameMap("S", "S")
  /\ ofacTooSmall(OfacSize(ofacNameMap))

\* how far a call has come: every position is left towards a later one
Progress(q) ==
  CASE q = "idle" -> 0
    [] q = "lm" -> 1
    [] q = "irs_lm2" -> 2
    [] q = "irs_get" -> 3
    [] q = "irs_wzip" -> 4
    [] q = "irs_open" -> 5
    [] q = "irs_buf" -> 6
    [] q = "irs_wcsv" -> 7
    [] q \in {"irs_save", "irs_read"} -> 8
    [] q = "ofac_lm2" -> 9
    [] q = "ofac_get" -> 10
    [] q = "ofac_w" -> 11
    [] q \in {"ofac_save", "ofac_read"} -> 12
    [] q \in Terminal -> 13

\* C30: a call of initialize() or refresh() issues at most one request for
\* the revocation archive and at most one for each of the two sanctions
\* files; a step of a download that fails leads either to the read of the
\* cache or to the failure of the call, the read of the cache is followed
\* by the next dataset or by the return and never by another download of
\* the same dataset, and every step of a call moves it forward, so a call
\* ends after a bounded number of steps.
C30_NoRetry ==
  /\ [](\A p \in Calls : hist[p].netIrs <= 1 /\ hist[p].netOfac <= 2)
  /\ [][\A p \in Calls :
          /\ pc'[p] # pc[p] => Progress(pc'[p]) > Progress(pc[p])
          /\ StepFails(p, IrsAttemptPcs) =>
               /\ pc'[p] \in {"irs_read", "failed"}
               /\ hist'[p].netIrs = 1
          /\ StepFails(p, OfacAttemptPcs) =>
               /\ pc'[p] \in {"ofac_read", "failed"}
               /\ hist'[p].netOfac = 2
          /\ (pc[p] = "irs_read" /\ pc'[p] # pc[p]) =>
               /\ pc'[p] \in {"ofac_get", "ofac_lm2", "ofac_read", "done"}
               /\ hist'[p].netIrs = hist[p].netIrs
          /\ (pc[p] = "ofac_read" /\ pc'[p] # pc[p]) =>
               /\ pc'[p] = "done"
               /\ hist'[p].netOfac = hist[p].netOfac]_vars

\* initialize() found no cache under a fresh manifest, downloaded both
\* datasets, both downloads failed validation after the files were written,
\* and the call ended on the read of those files: one request per file
C30_Witness ==
  /\ pc["init"] = "done"
  /\ pc["r1"] = "idle"
  /\ manifestFile = [irs_revocation |-> FreshIrsEntry, ofac_sdn |-> FreshOfacEntry]
  /\ hist["init"].netIrs = 1
  /\ hist["init"].netOfac = 2
  /\ hist["init"].saved = {}
  /\ csvFile = "S"
  /\ sdnFile = "S"

\* C23 as stated: a refresh whose target is one dataset requests only that
\* dataset, whatever the manifest says about its age, and none of its steps
\* changes the other dataset's active generation, cache files or manifest
\* entry; a refresh that has returned has requested exactly its targets
\* and reports irs_refreshed / ofac_refreshed for exactly those; an omitted
\* source is the target "all".
C23_RefreshTouchesOnlyTarget ==
  /\ [](\A r \in Refreshes :
          /\ (pc[r] # "idle" /\ ~refreshIrs(loc[r].tgt)) => hist[r].netIrs = 0
          /\ (pc[r] # "idle" /\ ~refreshOfac(loc[r].tgt)) => hist[r].netOfac = 0
          /\ pc[r] = "done" =>
               /\ hist[r].netIrs = (IF loc[r].tgt \in {"irs", "all"} THEN 1 ELSE 0)
               /\ hist[r].netOfac = (IF loc[r].tgt \in {"ofac", "all"} THEN 2 ELSE 0)
               /\ res[r].success
               /\ res[r].data.irs_refreshed = (loc[r].tgt \in {"irs", "all"})
               /\ res[r].data.ofac_refreshed = (loc[r].tgt \in {"ofac", "all"}))
  /\ [][\A r \in Refreshes :
          /\ (pc'[r] # pc[r] /\ loc'[r].tgt = "irs") =>
               /\ ofacNameMap' = ofacNameMap
               /\ sdnFile' = sdnFile /\ altFile' = altFile
               /\ manifestFile'.ofac_sdn = manifestFile.ofac_sdn
          /\ (pc'[r] # pc[r] /\ loc'[r].tgt = "ofac") =>
               /\ irsMap' = irsMap
               /\ zipFile' = zipFile /\ csvFile' = csvFile
               /\ manifestFile'.irs_revocation = manifestFile.irs_revocation
          /\ \A source \in Targets \cup {None} :
               (pc[r] = "idle" /\ pc'[r] = "lm" /\ RefreshStart(r, source)) =>
                  loc'[r].tgt = (IF source = None THEN "all" ELSE source)]_vars

\* C31: lastRefreshAt never decreases; it changes only in the step in which
\* a refresh returns successfully, and then to the time of that step; no
\* step of initialize(), no lookup, no refresh that fails or is rejected and
\* no passing of time changes it.
C31_LastRefreshMonotone ==
  [][/\ lastRefreshAt' >= lastRefreshAt
     /\ lastRefreshAt' # lastRefreshAt =>
          /\ \E r \in Refreshes :
                /\ pc[r] \notin Terminal \cup {"idle"}
                /\ pc'[r] = "done"
                /\ res'[r].success
          /\ pc'["init"] = pc["init"]
          /\ lastCall' = NoCall
          /\ lastRefreshAt' = now
     /\ \A r \in Refreshes :
          (pc[r] # "done" /\ pc'[r] = "done") => lastRefreshAt' = now]_vars

\* two refreshes have returned successfully a minute apart, after
\* initialize() had returned, and the later time is recorded
C31_Witness ==
  /\ pc["init"] = "done"
  /\ pc["r1"] = "done"
  /\ pc["r2"] = "done"
  /\ hist["r2"].t0 > hist["r1"].t0
  /\ lastRefreshAt = StartTime + 2 * TickMs

\* the manifest entry e was written by a download that began at t or later
WrittenSince(e, t) == e # Absent /\ e.downloaded_at >= t

\* C32 as stated: once a refresh of the revocation data and a refresh of the
\* sanctions data have both returned after a successful download (each has
\* saved the entry of its dataset), however their steps were interleaved,
\* the manifest on disk holds the new revocation entry and the new
\* sanctions entry.
C32_NoLostManifestUpdate ==
  \A a, b \in Refreshes :
     (/\ pc[a] = "done" /\ loc[a].tgt = "irs" /\ "irs" \in hist[a].saved
      /\ pc[b] = "done" /\ loc[b].tgt = "ofac" /\ "ofac" \in hist[b].saved)
     => /\ WrittenSince(manifestFile.irs_revocation, hist[a].t0)
        /\ WrittenSince(manifestFile.ofac_sdn, hist[b].t0)

\* a refresh of both datasets, called on a store that was just constructed,
\* has thrown
FirstRefreshAllThrew ==
  /\ pc["init"] = "idle"
  /\ pc["r1"] = "failed"
  /\ loc["r1"].tgt = "all"

\* C33 as stated: when refresh('all') throws, the active revocation and
\* sanctions generations, the manifest and lastRefreshAt are what they were
\* before the call (here: the empty maps, a manifest left by an earlier
\* run, and 0).
C33_FailedRefreshHasNoEffect ==
  FirstRefreshAllThrew =>
     /\ irsMap = EmptyIrsMap
     /\ ofacNameMap = EmptyOfacMap
     /\ manifestFile \in InitialManifests
     /\ lastRefreshAt = 0

\* C33 amended: when refresh('all') throws, the active sanctions
\* generation, the sanctions entry of the manifest and lastRefreshAt are
\* what they were before the call; the revocation generation and the
\* revocation entry are too when the call failed in its revocation step,
\* and otherwise they are those of the revocation step that the call had
\* completed before its sanctions step failed.
C33_FailedRefreshKeepsSanctions ==
  FirstRefreshAllThrew =>
     /\ ofacNameMap = EmptyOfacMap
     /\ manifestFile.ofac_sdn \in {m.ofac_sdn : m \in InitialManifests}
     /\ lastRefreshAt = 0
     /\ hist["r1"].netOfac = 0 =>
          /\ irsMap = EmptyIrsMap
          /\ manifestFile \in InitialManifests
     /\ (irsMap # EmptyIrsMap \/ manifestFile \notin InitialManifests) =>
          /\ hist["r1"].netIrs = 1
          /\ hist["r1"].netOfac = 2
          /\ irsMap = parseIrsCsv(csvFile)
          /\ "irs" \in hist["r1"].saved =>
               manifestFile.irs_revocation = IrsEntry(StartTime, IrsSize(irsMap))
          /\ "irs" \notin hist["r1"].saved => manifestFile \in InitialManifests

\* the revocation step published and saved a new generation, then the
\* sanctions download failed with no cache and the call threw
C33_Witness ==
  /\ FirstRefreshAllThrew
  /\ "irs" \in hist["r1"].saved
  /\ irsMap = parseIrsCsv("A")
  /\ hist["r1"].netOfac = 2
  /\ ofacNameMap = EmptyOfacMap
  /\ ~res["r1"].success

\* checkRedFlags has returned a report
Reported == lastCall.op = "checkRedFlags" /\ lastCall.response.success

\* C34: in every report of checkRedFlags, clean is true exactly when there
\* are no flags and exactly when the recommendation is CLEAN; flags_found is
\* the number of flags; the recommendation is BLOCK when a flag is
\* CRITICAL, FLAG when there are flags and none is CRITICAL, CLEAN when
\* there are none; and the headline is the text fixed for the
\* recommendation.
C34_ReportFieldsAgree ==
  Reported =>
     LET d == lastCall.response.data
         flags == d.flags
         rec == d.summary.recommendation
     IN /\ d.clean = (flags = <<>>)
        /\ d.clean = (rec = "CLEAN")
        /\ d.summary.flags_found = Len(flags)
        /\ rec = getRecommendation(flags)
        /\ rec = (IF \E i \in DOMAIN flags : flags[i].severity = "CRITICAL" THEN "BLOCK"
                  ELSE IF flags # <<>> THEN "FLAG" ELSE "CLEAN")
        /\ rec = "CLEAN" => d.summary.headline = "No Red Flags Detected"
        /\ rec = "FLAG" => d.summary.headline = "Red Flags Found - Manual Review Required"
        /\ rec = "BLOCK" => d.summary.headline = "CRITICAL Red Flags - Do Not Proceed"

\* a report with two flags, one of them CRITICAL
C34_Witness ==
  /\ Reported
  /\ Len(lastCall.response.data.flags) = 2
  /\ lastCall.response.data.summary.flags_found = 2
  /\ lastCall.response.data.summary.recommendation = "BLOCK"
  /\ ~lastCall.response.data.clean

\* C35 as stated: in every report of checkRedFlags, sources_checked is the
\* number of sources that were consulted for the request: 3 when the
\* litigation client is configured and was queried, 2 when it is not
\* configured.
C35_SourcesCheckedCounted ==
  Reported =>
     /\ lastCall.response.data.summary.sources_checked =
           Cardinality(lastCall.response.invoked)
     /\ lastCall.response.data.summary.sources_checked =
           (IF lastCall.court = Absent THEN 2 ELSE 3)

\* C36: the active name index never has the empty key, whatever files it
\* was built from (also a file with a primary name made of punctuation); a
\* lookupName of a name that normalizes to the empty string returns no row
\* and a sanctions check of such a name returns found = false with no
\* match.
C36_EmptyKeyNeverMatches ==
  /\ <<>> \notin DOMAIN ofacNameMap.idx
  /\ (lastCall.op = "lookupName" /\ normalizeName(lastCall.arg) = <<>>) =>
        lastCall.rows = <<>>
  /\ (lastCall.op = "ofacCheck" /\ normalizeName(lastCall.arg) = <<>>) =>
        /\ ~lastCall.result.found
        /\ lastCall.result.matches = <<>>

\* a punctuation-only name checked against an index built from a file that
\* holds a punctuation-only primary name
C36_Witness ==
  /\ lastCall.op = "ofacCheck"
  /\ lastCall.arg = N_Punct
  /\ sdnFile = "A"
  /\ \E i \in DOMAIN SdnContent("A").records :
        normalizeName(SdnContent("A").records[i].name) = <<>>
  /\ ~lastCall.result.found

\* C37 as stated: the times at which any two searchByOrgName calls are
\* released by waitIfNeeded differ by at least the configured delay,
\* whether the calls were issued one after the other or while earlier ones
\* were still waiting.
C37_ReleasesSpaced ==
  \A c, d \in Searches :
     (c # d /\ search[c].at = "released" /\ search[d].at = "released") =>
        \/ search[c].released - search[d].released >= courtlistenerRateLimitMs
        \/ search[d].released - search[c].released >= courtlistenerRateLimitMs

\* the number of suffix tokens stacked at the end of the token list ws
TrailingSuffixCount(ws) ==
  Cardinality({k \in 1..Len(ws) :
                 \A i \in (Len(ws) - k + 1)..Len(ws) : ws[i] \in ORG_SUFFIXES})

\* C38: the suffix loop of normalizeName makes at most ten passes; a pass
\* either leaves the name as it is or removes exactly one token from its
\* end, a token of the suffix list; and when the name entering the loop ends
\* in at most nine stacked suffix tokens, the last pass removed nothing: the
\* loop stopped because no suffix matched, not because of the cap.
C38_SuffixLoopBounded ==
  lastCall.op = "normalizeName" =>
     LET start == stripThePrefix(Cleaned(lastCall.arg))
         steps == suffixLoopSteps(start, 0)
         n == Len(steps)
         before(i) == IF i = 1 THEN start ELSE steps[i - 1]
     IN /\ collapseAndTrim(steps[n]) = lastCall.result
        /\ n >= 1
        /\ n <= MAX_SUFFIX_ITERATIONS
        /\ \A i \in 1..n :
              \/ steps[i] = before(i)
              \/ \E w \in ORG_SUFFIXES : Split(before(i)) = Append(Split(steps[i]), w)
        /\ TrailingSuffixCount(Split(start)) <= MAX_SUFFIX_ITERATIONS - 1
              => steps[n] = before(n)

\* a name with nine stacked suffixes has lost them all, in ten passes
C38_Witness ==
  /\ lastCall.op = "normalizeName"
  /\ lastCall.arg = O_StackOf(MAX_SUFFIX_ITERATIONS - 1)
  /\ lastCall.result = W_acme
  /\ Len(suffixLoopSteps(lastCall.arg, 0)) = MAX_SUFFIX_ITERATIONS

====
